---- MODULE Spec2Model ----
(***************************************************************************)
(* A model of snapem's scan orchestrator (internal/scanner/orchestrator.go)*)
(* with the scanner clients it fans out to, of the policy evaluations of   *)
(* the install and scan commands, and of the install command's flow.       *)
(***************************************************************************)
EXTENDS Integers, Sequences, FiniteSets, TLC

\* ------------------------------------------------------------------ bounds
MaxPackages == 2
MaxFindings == 2

\* ------------------------------------------------------------ value domains
Names == {"lodash", "malicious-lib"}

Package(n) == [name |-> n, version |-> "1.0.0", ecosystem |-> "npm"]

FindingTypeMalware == "malware"
FindingTypeCVE == "cve"
FindingTypeTyposquat == "typosquat"
FindingTypeLicense == "license"
FindingTypeMaintainer == "maintainer"
FindingTypeQuality == "quality"

SeverityCritical == "critical"
SeverityHigh == "high"
SeverityMedium == "medium"
SeverityLow == "low"
SeverityInfo == "info"

SocketName == "Socket.dev"
OSVName == "Google OSV"
ScannerNames == {SocketName, OSVName}

NoErr == "nil"
\* A nil *ScanResult / *AggregatedResult.
NoResult == [nil |-> TRUE]

Finding(pkg, ver, typ, sev) ==
    [package |-> pkg, version |-> ver, type |-> typ, severity |-> sev]

\* Sequences over S of length at most n.
SeqsUpTo(S, n) == UNION {[1..k -> S] : k \in 0..n}

VARIABLES
    cfg,          \* the *config.Config the orchestrator was built from
    scanners,     \* o.scanners
    packages,     \* the packages argument of Scan / ScanWithProgress
    mode,         \* which entry point runs: "Scan" or "ScanWithProgress"
    onProgress,   \* TRUE iff the progress callback is non-nil
    pc,           \* position of the calling goroutine
    idx,          \* index of the fan-out loop over o.scanners
    filtered,     \* filteredPackages
    task,         \* position of each scanner goroutine
    taskOut,      \* what scanner.Scan returned inside each goroutine
    wg,           \* the sync.WaitGroup counter
    closer,       \* position of the goroutine that waits and closes
    resultsChan,  \* buffer of resultsChan
    errChan,      \* buffer of errChan
    chanClosed,   \* which of the two channels have been closed
    chanNil,      \* which of the collector's two channel variables are nil
    results,      \* the collector's results slice
    firstErr,     \* the collector's firstErr
    ret,          \* the returned *AggregatedResult (NoResult for nil)
    retErr,       \* the returned error (NoErr for nil)
    scanArgs,     \* history: the package lists each scanner's Scan was called with
    availCalls,   \* history: the scanners whose IsAvailable was called
    errsSeen,     \* history: the errors the collector received, in order
    progressLog,  \* history: the progress callback's invocations, in order
    policy,       \* cfg.Scanning.Policy as the policy evaluation reads it
    command,      \* the command whose policy evaluation ran: "install" or "scan"
    decision,     \* the error the policy evaluation returned (NilError for nil)
    flags,        \* the install command's flags: skipScan, force, noContainer
    args,         \* the install command's arguments: the new packages' names
    ipc,          \* position of runInstall
    scanErr,      \* the error runSecurityScan returned (NilError for nil)
    prompts,      \* history: the prompts shown, with the line read for each
    installerRan, \* history: runtime.Run executed the installer command
    cliErr,       \* the error runInstall / runScan returned (NilError for nil)
    jsonOut,      \* what outputJSONResult wrote (NoOutput before it ran)
    project,      \* package.json and package-lock.json as the parser reads them
    ctxDone,      \* TRUE iff the caller has cancelled the ctx it gave to Scan
    queryCtx      \* the context each scanner's doBatchQuery derived (NoCtx before)

vars == <<cfg, scanners, packages, mode, onProgress, pc, idx, filtered, task,
          taskOut, wg, closer, resultsChan, errChan, chanClosed, chanNil,
          results, firstErr, ret, retErr, scanArgs, availCalls, errsSeen,
          progressLog, policy, command, decision, flags, args, ipc, scanErr,
          prompts, installerRan, cliErr, jsonOut, project, ctxDone, queryCtx>>

\* The variables of the policy evaluation.
policyVars == <<policy, command, decision>>

\* The variables of the install command.
cliVars == <<flags, args, ipc, scanErr, prompts, installerRan, cliErr, jsonOut, project>>

\* The variables of the orchestrator.
scanVars == <<scanners, packages, mode, onProgress, pc, idx, filtered, task,
              taskOut, wg, closer, resultsChan, errChan, chanClosed, chanNil,
              results, firstErr, ret, retErr, scanArgs, availCalls, errsSeen,
              progressLog>>

\* The variables of the cancellation contexts.
ctxVars == <<ctxDone, queryCtx>>

\* ------------------------------------------------------------------ config
\* Mutant of IsPackageAllowlisted: the blocklist is consulted instead.
IsPackageAllowlisted_blocklist(c, name) == name \in c.blocklist

IsPackageAllowlisted(c, name) == name \in c.allowlist

IsPackageBlocklisted(c, name) == name \in c.blocklist

HasSocketToken(c) == c.socketToken

\* o.scanners as NewOrchestrator builds it: Socket first, then OSV.
NewOrchestrator(c) ==
    (IF c.socketEnabled THEN <<SocketName>> ELSE <<>>)
        \o (IF c.osvEnabled THEN <<OSVName>> ELSE <<>>)

\* socket.Client.IsAvailable / osv.Client.IsAvailable
IsAvailable(c, s) == IF s = SocketName THEN c.socketToken ELSE TRUE

AvailableScanners(c, ss) ==
    {ss[i] : i \in {j \in 1..Len(ss) : IsAvailable(c, ss[j])}}

\* ------------------------------------------------------------------ scanners
ErrOf(s) == IF s = SocketName THEN "failed to query Socket API"
                              ELSE "failed to query OSV API"

\* The type/severity pairs each client reports in the concurrent model: the
\* Socket client a critical malware alert, the OSV client (always type cve) a
\* high-severity vulnerability.
FindingKinds(s) ==
    IF s = SocketName
        THEN {<<FindingTypeMalware, SeverityCritical>>}
        ELSE {<<FindingTypeCVE, SeverityHigh>>}

ScanResult(s, n, fs) == [scanner |-> s, packages |-> n, findings |-> fs]

\* What scanner.Scan(ctx, pkgs) can return: an empty package list returns an
\* empty result without a query; otherwise the query fails or yields findings
\* about the queried packages.
ScanOutcomes(s, pkgs) ==
    IF Len(pkgs) = 0
        THEN {[err |-> NoErr, result |-> ScanResult(s, 0, <<>>)]}
        ELSE {[err |-> ErrOf(s), result |-> NoResult]}
             \cup {[err |-> NoErr, result |-> ScanResult(s, Len(pkgs), fs)] :
                     fs \in SeqsUpTo({Finding(pkgs[1].name, pkgs[1].version, k[1], k[2]) :
                                        k \in FindingKinds(s)}, MaxFindings)}

\* ------------------------------------------------------------- orchestrator
\* Mutant of IsEmptyInput: the early return is missing.
IsEmptyInput_never(pkgs) == FALSE

\* if len(packages) == 0 (the early return of Scan and ScanWithProgress)
IsEmptyInput(pkgs) == Len(pkgs) = 0

\* Mutant of AllFailed: any scanner error fails the whole scan.
AllFailed_anyError(rs, fe) == fe # NoErr

\* if len(results) == 0 && firstErr != nil
AllFailed(rs, fe) == Len(rs) = 0 /\ fe # NoErr

\* Mutant of KeepFirst: the last error received overwrites the first.
KeepFirst_last(fe, e) == e

\* else if firstErr == nil { firstErr = err }
KeepFirst(fe, e) == IF fe = NoErr THEN e ELSE fe

RECURSIVE filterAllowlisted(_, _)
filterAllowlisted(c, pkgs) ==
    IF pkgs = <<>> THEN <<>>
    ELSE (IF IsPackageAllowlisted(c, Head(pkgs).name) THEN <<>> ELSE <<Head(pkgs)>>)
            \o filterAllowlisted(c, Tail(pkgs))

RECURSIVE FlatFindings(_)
FlatFindings(rs) ==
    IF rs = <<>> THEN <<>> ELSE Head(rs).findings \o FlatFindings(Tail(rs))

AllFindings(ar) == FlatFindings(ar.results)

\* Mutant of aggregate: each finding overwrites the flags instead of setting them.
aggregate_overwrite(rs) ==
    LET fs == FlatFindings(rs) IN
    [results |-> rs,
     total_packages |-> 0,
     total_findings |-> Len(fs),
     has_malware |-> fs # <<>> /\ fs[Len(fs)].type
                        \in {FindingTypeMalware, FindingTypeTyposquat},
     has_critical |-> fs # <<>> /\ fs[Len(fs)].severity = SeverityCritical,
     has_high |-> fs # <<>> /\ fs[Len(fs)].severity = SeverityHigh]

\* Mutant of aggregate: a finding reported twice is counted once.
aggregate_dedup(rs) ==
    LET fs == FlatFindings(rs) IN
    [results |-> rs,
     total_packages |-> 0,
     total_findings |-> Cardinality({fs[i] : i \in 1..Len(fs)}),
     has_malware |-> \E i \in 1..Len(fs) :
                        fs[i].type \in {FindingTypeMalware, FindingTypeTyposquat},
     has_critical |-> \E i \in 1..Len(fs) : fs[i].severity = SeverityCritical,
     has_high |-> \E i \in 1..Len(fs) : fs[i].severity = SeverityHigh]

\* Orchestrator.aggregate: one pass over every finding of every result.
aggregate(rs) ==
    LET fs == FlatFindings(rs) IN
    [results |-> rs,
     total_packages |-> 0,
     total_findings |-> Len(fs),
     has_malware |-> \E i \in 1..Len(fs) :
                        fs[i].type \in {FindingTypeMalware, FindingTypeTyposquat},
     has_critical |-> \E i \in 1..Len(fs) : fs[i].severity = SeverityCritical,
     has_high |-> \E i \in 1..Len(fs) : fs[i].severity = SeverityHigh]

PolicyResult(pkg) ==
    ScanResult("policy", 1,
               <<Finding(pkg.name, pkg.version, FindingTypeMalware, SeverityCritical)>>)

\* The blocklist loop at the end of Scan, over the original package list.
RECURSIVE injectBlocklist(_, _, _)
injectBlocklist(c, pkgs, ar) ==
    IF pkgs = <<>> THEN ar
    ELSE injectBlocklist(c, Tail(pkgs),
            IF IsPackageBlocklisted(c, Head(pkgs).name)
                THEN [ar EXCEPT !.results = Append(@, PolicyResult(Head(pkgs))),
                                !.has_malware = TRUE,
                                !.total_findings = @ + 1]
                ELSE ar)

ZeroResult ==
    [results |-> <<>>, total_packages |-> 0, total_findings |-> 0,
     has_malware |-> FALSE, has_critical |-> FALSE, has_high |-> FALSE]

\* Mutant of ScanTail: the blocklist loop runs over the filtered packages.
ScanTail_overFiltered(c, pkgs, fpkgs, rs) ==
    injectBlocklist(c, fpkgs, [aggregate(rs) EXCEPT !.total_packages = Len(fpkgs)])

\* The part of Scan after the collector loop, when it does not return an error.
ScanTail(c, pkgs, fpkgs, rs) ==
    injectBlocklist(c, pkgs, [aggregate(rs) EXCEPT !.total_packages = Len(fpkgs)])

\* The part of ScanWithProgress after the collector loop.
ProgressTail(c, pkgs, fpkgs, rs) ==
    [aggregate(rs) EXCEPT !.total_packages = Len(fpkgs)]

\* ------------------------------------------------------------------ policy
ExitSuccess == 0
ExitSecurityBlock == 2

\* errors.SecurityBlockError(message)
SecurityBlockError(msg) == [code |-> ExitSecurityBlock, message |-> msg]

\* A nil error returned by a command's step.
NilError == [code |-> ExitSuccess, message |-> "nil"]

\* No policy evaluation has run.
NotEvaluated == [code |-> ExitSuccess, message |-> "not evaluated"]

NoPolicy == [malware |-> "unset", cve |-> <<>>]

PolicyActions == {"block", "warn", "ignore"}

CVESeverities == <<SeverityCritical, SeverityHigh, SeverityMedium, SeverityLow>>

\* PolicyConfig: the malware action and the severity -> action map, which may
\* leave severities unmapped.
Policies ==
    [malware : PolicyActions,
     cve : UNION {[D -> PolicyActions] :
                    D \in SUBSET {CVESeverities[i] : i \in 1..Len(CVESeverities)}}]

ShouldBlock(action) == action = "block"

\* Mutant of GetCVEAction: an unmapped severity blocks.
GetCVEAction_defaultBlock(p, severity) ==
    IF severity \in DOMAIN p.cve THEN p.cve[severity] ELSE "block"

GetCVEAction(p, severity) ==
    IF severity \in DOMAIN p.cve THEN p.cve[severity] ELSE "ignore"

IsMalwareType(t) == t \in {FindingTypeMalware, FindingTypeTyposquat}

MalwareFindings(ar) ==
    SelectSeq(AllFindings(ar), LAMBDA f : IsMalwareType(f.type))

CVEFindings(ar) ==
    SelectSeq(AllFindings(ar), LAMBDA f : f.type = FindingTypeCVE)

\* evaluateScanResults, the malware part: hasBlockingIssue is set when there
\* are malware findings and the malware action is block.
MalwareBlocks(p, ar) ==
    Len(MalwareFindings(ar)) > 0 /\ ShouldBlock(p.malware)

\* evaluateScanResults, the CVE part: hasBlockingIssue is set by a CVE finding
\* of one of the four listed severities whose action is block.
CVEBlocks(p, ar) ==
    LET cves == CVEFindings(ar) IN
        \E s \in 1..Len(CVESeverities) : \E i \in 1..Len(cves) :
            /\ cves[i].severity = CVESeverities[s]
            /\ ShouldBlock(GetCVEAction(p, CVESeverities[s]))

\* evaluateScanResults (install command)
evaluateScanResults(p, ar) ==
    IF ar.total_findings = 0 THEN NilError
    ELSE IF MalwareBlocks(p, ar) \/ CVEBlocks(p, ar)
        THEN SecurityBlockError("security threats detected")
        ELSE NilError

\* outputTextResult (scan command, text output)
outputTextResult(p, ar) ==
    IF ar.total_findings = 0 THEN NilError
    ELSE IF ar.has_malware /\ ShouldBlock(p.malware)
        THEN SecurityBlockError("malware detected")
    ELSE IF ar.has_critical /\ ShouldBlock(GetCVEAction(p, SeverityCritical))
        THEN SecurityBlockError("critical vulnerabilities detected")
        ELSE NilError

\* No install command runs.
NoFlags == [skipScan |-> FALSE, force |-> FALSE, noContainer |-> FALSE]

NoOutput == [nil |-> TRUE]

\* No project directory is read.
NoProject == [nil |-> TRUE]

\* No context has been derived.
NoCtx == [nil |-> TRUE]

NoInstall ==
    /\ project = NoProject
    /\ jsonOut = NoOutput
    /\ flags = NoFlags
    /\ args = <<>>
    /\ ipc = "none"
    /\ scanErr = NilError
    /\ prompts = <<>>
    /\ installerRan = FALSE
    /\ cliErr = NilError

\* ------------------------------------------------------------------ Init
Configs ==
    [allowlist : SUBSET Names, blocklist : SUBSET Names,
     socketEnabled : BOOLEAN, socketToken : BOOLEAN, osvEnabled : BOOLEAN]

PackageLists == SeqsUpTo({Package(n) : n \in Names}, MaxPackages)

Init ==
    /\ cfg \in Configs
    /\ scanners = NewOrchestrator(cfg)
    /\ packages \in PackageLists
    /\ mode \in {"Scan", "ScanWithProgress"}
    /\ onProgress \in (IF mode = "Scan" THEN {FALSE} ELSE BOOLEAN)
    /\ pc = "entry"
    /\ idx = 1
    /\ filtered = <<>>
    /\ task = [s \in ScannerNames |-> "none"]
    /\ taskOut = [s \in ScannerNames |-> NoResult]
    /\ wg = 0
    /\ closer = "none"
    /\ resultsChan = <<>>
    /\ errChan = <<>>
    /\ chanClosed = {}
    /\ chanNil = {}
    /\ results = <<>>
    /\ firstErr = NoErr
    /\ ret = NoResult
    /\ retErr = NoErr
    /\ scanArgs = [s \in ScannerNames |-> <<>>]
    /\ availCalls = {}
    /\ errsSeen = <<>>
    /\ progressLog = <<>>
    /\ policy = NoPolicy
    /\ command = "none"
    /\ decision = NotEvaluated
    /\ ctxDone = FALSE
    /\ queryCtx = [s \in ScannerNames |-> NoCtx]
    /\ NoInstall

\* ------------------------------------------------------- the calling goroutine
\* len(packages) == 0: return the zero result at once.
ReturnEmpty ==
    /\ pc = "entry"
    /\ IsEmptyInput(packages)
    /\ ret' = ZeroResult
    /\ retErr' = NoErr
    /\ pc' = "done"
    /\ UNCHANGED <<policyVars, cliVars, ctxVars>>
    /\ UNCHANGED <<cfg, scanners, packages, mode, onProgress, idx, filtered, task,
                   taskOut, wg, closer, resultsChan, errChan, chanClosed, chanNil,
                   results, firstErr, scanArgs, availCalls, errsSeen, progressLog>>

\* filteredPackages := o.filterAllowlisted(packages); make the channels.
Begin ==
    /\ pc = "entry"
    /\ ~IsEmptyInput(packages)
    /\ filtered' = filterAllowlisted(cfg, packages)
    /\ pc' = "fanout"
    /\ UNCHANGED <<policyVars, cliVars, ctxVars>>
    /\ UNCHANGED <<cfg, scanners, packages, mode, onProgress, idx, task,
                   taskOut, wg, closer, resultsChan, errChan, chanClosed, chanNil,
                   results, firstErr, ret, retErr, scanArgs, availCalls, errsSeen,
                   progressLog>>

\* Mutant of SkipUnavailable: the unavailable scanner is launched all the same.
SkipUnavailable_launch ==
    /\ pc = "fanout"
    /\ idx <= Len(scanners)
    /\ ~IsAvailable(cfg, scanners[idx])
    /\ availCalls' = availCalls \cup {scanners[idx]}
    /\ wg' = wg + 1
    /\ task' = [task EXCEPT ![scanners[idx]] = "spawned"]
    /\ idx' = idx + 1
    /\ UNCHANGED <<policyVars, cliVars, ctxVars>>
    /\ UNCHANGED <<cfg, scanners, packages, mode, onProgress, pc, filtered,
                   taskOut, closer, resultsChan, errChan, chanClosed, chanNil,
                   results, firstErr, ret, retErr, scanArgs, errsSeen, progressLog>>

\* One iteration of the loop over o.scanners whose scanner is not available.
SkipUnavailable ==
    /\ pc = "fanout"
    /\ idx <= Len(scanners)
    /\ ~IsAvailable(cfg, scanners[idx])
    /\ availCalls' = availCalls \cup {scanners[idx]}
    /\ idx' = idx + 1
    /\ UNCHANGED <<policyVars, cliVars, ctxVars>>
    /\ UNCHANGED <<cfg, scanners, packages, mode, onProgress, pc, filtered, task,
                   taskOut, wg, closer, resultsChan, errChan, chanClosed, chanNil,
                   results, firstErr, ret, retErr, scanArgs, errsSeen, progressLog>>

\* One iteration whose scanner is available: wg.Add(1) and start its goroutine.
Launch ==
    /\ pc = "fanout"
    /\ idx <= Len(scanners)
    /\ IsAvailable(cfg, scanners[idx])
    /\ availCalls' = availCalls \cup {scanners[idx]}
    /\ wg' = wg + 1
    /\ task' = [task EXCEPT ![scanners[idx]] = "spawned"]
    /\ idx' = idx + 1
    /\ UNCHANGED <<policyVars, cliVars, ctxVars>>
    /\ UNCHANGED <<cfg, scanners, packages, mode, onProgress, pc, filtered,
                   taskOut, closer, resultsChan, errChan, chanClosed, chanNil,
                   results, firstErr, ret, retErr, scanArgs, errsSeen, progressLog>>

\* The loop is over: start the goroutine that waits and closes; go collect.
StartCloser ==
    /\ pc = "fanout"
    /\ idx > Len(scanners)
    /\ closer' = "waiting"
    /\ pc' = "collect"
    /\ UNCHANGED <<policyVars, cliVars, ctxVars>>
    /\ UNCHANGED <<cfg, scanners, packages, mode, onProgress, idx, filtered, task,
                   taskOut, wg, resultsChan, errChan, chanClosed, chanNil,
                   results, firstErr, ret, retErr, scanArgs, availCalls, errsSeen,
                   progressLog>>

\* After a select case: leave the loop when both channel variables are nil.
AfterSelect(nils) == IF nils = {"results", "err"} THEN "tail" ELSE "collect"

\* case result, ok := <-resultsChan with ok: append.
RecvResult ==
    /\ pc = "collect"
    /\ "results" \notin chanNil
    /\ resultsChan # <<>>
    /\ results' = Append(results, Head(resultsChan))
    /\ resultsChan' = Tail(resultsChan)
    /\ pc' = AfterSelect(chanNil)
    /\ UNCHANGED <<policyVars, cliVars, ctxVars>>
    /\ UNCHANGED <<cfg, scanners, packages, mode, onProgress, idx, filtered, task,
                   taskOut, wg, closer, errChan, chanClosed, chanNil,
                   firstErr, ret, retErr, scanArgs, availCalls, errsSeen, progressLog>>

\* Mutant of RecvResultsClosed: a closed channel reports !ok at once, with
\* results still in its buffer.
RecvResultsClosed_dropBuffered ==
    /\ pc = "collect"
    /\ "results" \notin chanNil
    /\ "results" \in chanClosed
    /\ chanNil' = chanNil \cup {"results"}
    /\ pc' = AfterSelect(chanNil')
    /\ UNCHANGED <<policyVars, cliVars, ctxVars>>
    /\ UNCHANGED <<cfg, scanners, packages, mode, onProgress, idx, filtered, task,
                   taskOut, wg, closer, resultsChan, errChan, chanClosed,
                   results, firstErr, ret, retErr, scanArgs, availCalls, errsSeen,
                   progressLog>>

\* case result, ok := <-resultsChan with !ok: resultsChan = nil.
RecvResultsClosed ==
    /\ pc = "collect"
    /\ "results" \notin chanNil
    /\ resultsChan = <<>>
    /\ "results" \in chanClosed
    /\ chanNil' = chanNil \cup {"results"}
    /\ pc' = AfterSelect(chanNil')
    /\ UNCHANGED <<policyVars, cliVars, ctxVars>>
    /\ UNCHANGED <<cfg, scanners, packages, mode, onProgress, idx, filtered, task,
                   taskOut, wg, closer, resultsChan, errChan, chanClosed,
                   results, firstErr, ret, retErr, scanArgs, availCalls, errsSeen,
                   progressLog>>

\* Mutant of RecvErr: the collector stops at the first error.
RecvErr_failFast ==
    /\ pc = "collect"
    /\ "err" \notin chanNil
    /\ errChan # <<>>
    /\ firstErr' = KeepFirst(firstErr, Head(errChan))
    /\ errsSeen' = Append(errsSeen, Head(errChan))
    /\ errChan' = Tail(errChan)
    /\ pc' = "tail"
    /\ UNCHANGED <<policyVars, cliVars, ctxVars>>
    /\ UNCHANGED <<cfg, scanners, packages, mode, onProgress, idx, filtered, task,
                   taskOut, wg, closer, resultsChan, chanClosed, chanNil,
                   results, ret, retErr, scanArgs, availCalls, progressLog>>

\* case err, ok := <-errChan with ok: keep the first error.
RecvErr ==
    /\ pc = "collect"
    /\ "err" \notin chanNil
    /\ errChan # <<>>
    /\ firstErr' = KeepFirst(firstErr, Head(errChan))
    /\ errsSeen' = Append(errsSeen, Head(errChan))
    /\ errChan' = Tail(errChan)
    /\ pc' = AfterSelect(chanNil)
    /\ UNCHANGED <<policyVars, cliVars, ctxVars>>
    /\ UNCHANGED <<cfg, scanners, packages, mode, onProgress, idx, filtered, task,
                   taskOut, wg, closer, resultsChan, chanClosed, chanNil,
                   results, ret, retErr, scanArgs, availCalls, progressLog>>

\* case err, ok := <-errChan with !ok: errChan = nil.
RecvErrClosed ==
    /\ pc = "collect"
    /\ "err" \notin chanNil
    /\ errChan = <<>>
    /\ "err" \in chanClosed
    /\ chanNil' = chanNil \cup {"err"}
    /\ pc' = AfterSelect(chanNil')
    /\ UNCHANGED <<policyVars, cliVars, ctxVars>>
    /\ UNCHANGED <<cfg, scanners, packages, mode, onProgress, idx, filtered, task,
                   taskOut, wg, closer, resultsChan, errChan, chanClosed,
                   results, firstErr, ret, retErr, scanArgs, availCalls, errsSeen,
                   progressLog>>

\* if len(results) == 0 && firstErr != nil { return nil, firstErr }
ReturnError ==
    /\ pc = "tail"
    /\ AllFailed(results, firstErr)
    /\ ret' = NoResult
    /\ retErr' = firstErr
    /\ pc' = "done"
    /\ UNCHANGED <<policyVars, cliVars, ctxVars>>
    /\ UNCHANGED <<cfg, scanners, packages, mode, onProgress, idx, filtered, task,
                   taskOut, wg, closer, resultsChan, errChan, chanClosed, chanNil,
                   results, firstErr, scanArgs, availCalls, errsSeen, progressLog>>

\* Aggregate (and, in Scan, add the blocklist findings) and return.
ReturnResult ==
    /\ pc = "tail"
    /\ ~AllFailed(results, firstErr)
    /\ ret' = IF mode = "Scan" THEN ScanTail(cfg, packages, filtered, results)
                               ELSE ProgressTail(cfg, packages, filtered, results)
    /\ retErr' = NoErr
    /\ pc' = "done"
    /\ UNCHANGED <<policyVars, cliVars, ctxVars>>
    /\ UNCHANGED <<cfg, scanners, packages, mode, onProgress, idx, filtered, task,
                   taskOut, wg, closer, resultsChan, errChan, chanClosed, chanNil,
                   results, firstErr, scanArgs, availCalls, errsSeen, progressLog>>

\* ------------------------------------------------------------ the contexts
\* context.WithTimeout(parent, c.timeout): the derived context is done as soon
\* as its parent is; doneAtStart records whether it was done when derived.
WithTimeout(parent, done) == [parent |-> parent, doneAtStart |-> done]

\* <-c.Done() is closed: the parent of c is the caller's ctx and it was cancelled.
Done(c) == c # NoCtx /\ c.parent = "ctx" /\ ctxDone

\* The caller cancels the ctx of a Scan or ScanWithProgress that has not returned.
Cancel ==
    /\ pc # "done"
    /\ ~ctxDone
    /\ ctxDone' = TRUE
    /\ UNCHANGED <<policyVars, cliVars, queryCtx>>
    /\ UNCHANGED <<cfg, scanVars>>

\* ------------------------------------------------------ the scanner goroutines
\* Mutant of TaskStarted: the goroutine goes on without calling the callback.
TaskStarted_unreported(s) ==
    /\ task[s] = "spawned"
    /\ onProgress
    /\ task' = [task EXCEPT ![s] = "started"]
    /\ UNCHANGED <<policyVars, cliVars, ctxVars>>
    /\ UNCHANGED <<cfg, scanners, packages, mode, onProgress, pc, idx, filtered,
                   taskOut, wg, closer, resultsChan, errChan, chanClosed, chanNil,
                   results, firstErr, ret, retErr, scanArgs, availCalls, errsSeen,
                   progressLog>>

\* onProgress(scanner.Name(), false), when there is a callback.
TaskStarted(s) ==
    /\ task[s] = "spawned"
    /\ onProgress
    /\ progressLog' = Append(progressLog, <<s, FALSE>>)
    /\ task' = [task EXCEPT ![s] = "started"]
    /\ UNCHANGED <<policyVars, cliVars, ctxVars>>
    /\ UNCHANGED <<cfg, scanners, packages, mode, onProgress, pc, idx, filtered,
                   taskOut, wg, closer, resultsChan, errChan, chanClosed, chanNil,
                   results, firstErr, ret, retErr, scanArgs, availCalls, errsSeen>>

\* Mutant of TaskQuery: the query's context is derived from a fresh background
\* context instead of the ctx the caller gave.
TaskQuery_background(s) ==
    /\ task[s] = (IF onProgress THEN "started" ELSE "spawned")
    /\ scanArgs' = [scanArgs EXCEPT ![s] = Append(@, filtered)]
    /\ queryCtx' = [queryCtx EXCEPT ![s] =
                        IF Len(filtered) = 0 THEN NoCtx ELSE WithTimeout("background", FALSE)]
    /\ task' = [task EXCEPT ![s] = "querying"]
    /\ UNCHANGED <<policyVars, cliVars, ctxDone>>
    /\ UNCHANGED <<cfg, scanners, packages, mode, onProgress, pc, idx, filtered,
                   taskOut, wg, closer, resultsChan, errChan, chanClosed, chanNil,
                   results, firstErr, ret, retErr, availCalls, errsSeen, progressLog>>

\* scanner.Scan(ctx, filteredPackages) is entered with the caller's ctx; for a
\* non-empty package list doBatchQuery derives its timeout context from it and
\* sends the request.
TaskQuery(s) ==
    /\ task[s] = (IF onProgress THEN "started" ELSE "spawned")
    /\ scanArgs' = [scanArgs EXCEPT ![s] = Append(@, filtered)]
    /\ queryCtx' = [queryCtx EXCEPT ![s] =
                        IF Len(filtered) = 0 THEN NoCtx ELSE WithTimeout("ctx", ctxDone)]
    /\ task' = [task EXCEPT ![s] = "querying"]
    /\ UNCHANGED <<policyVars, cliVars, ctxDone>>
    /\ UNCHANGED <<cfg, scanners, packages, mode, onProgress, pc, idx, filtered,
                   taskOut, wg, closer, resultsChan, errChan, chanClosed, chanNil,
                   results, firstErr, ret, retErr, availCalls, errsSeen, progressLog>>

\* result, err := scanner.Scan(ctx, filteredPackages) returns. A request whose
\* context was done before it was sent fails; one whose context is done while
\* it is in flight fails or has its response already.
TaskScan(s) ==
    /\ task[s] = "querying"
    /\ \E o \in ScanOutcomes(s, filtered) :
          /\ (queryCtx[s] # NoCtx /\ queryCtx[s].doneAtStart) => o.err # NoErr
          /\ taskOut' = [taskOut EXCEPT ![s] = o]
    /\ task' = [task EXCEPT ![s] = "scanned"]
    /\ UNCHANGED <<policyVars, cliVars, ctxVars>>
    /\ UNCHANGED <<cfg, scanners, packages, mode, onProgress, pc, idx, filtered,
                   wg, closer, resultsChan, errChan, chanClosed, chanNil,
                   results, firstErr, ret, retErr, scanArgs, availCalls, errsSeen,
                   progressLog>>

\* onProgress(scanner.Name(), true), when there is a callback.
TaskFinished(s) ==
    /\ task[s] = "scanned"
    /\ onProgress
    /\ progressLog' = Append(progressLog, <<s, TRUE>>)
    /\ task' = [task EXCEPT ![s] = "finished"]
    /\ UNCHANGED <<policyVars, cliVars, ctxVars>>
    /\ UNCHANGED <<cfg, scanners, packages, mode, onProgress, pc, idx, filtered,
                   taskOut, wg, closer, resultsChan, errChan, chanClosed, chanNil,
                   results, firstErr, ret, retErr, scanArgs, availCalls, errsSeen>>

\* errChan <- err, or resultsChan <- result (buffered: capacity len(o.scanners)).
TaskSend(s) ==
    /\ task[s] = (IF onProgress THEN "finished" ELSE "scanned")
    /\ IF taskOut[s].err # NoErr
          THEN /\ Len(errChan) < Len(scanners)
               /\ errChan' = Append(errChan, taskOut[s].err)
               /\ UNCHANGED resultsChan
          ELSE /\ Len(resultsChan) < Len(scanners)
               /\ resultsChan' = Append(resultsChan, taskOut[s].result)
               /\ UNCHANGED errChan
    /\ task' = [task EXCEPT ![s] = "sent"]
    /\ UNCHANGED <<policyVars, cliVars, ctxVars>>
    /\ UNCHANGED <<cfg, scanners, packages, mode, onProgress, pc, idx, filtered,
                   taskOut, wg, closer, chanClosed, chanNil,
                   results, firstErr, ret, retErr, scanArgs, availCalls, errsSeen,
                   progressLog>>

\* Mutant of TaskDone: wg.Done() is not deferred, and the return after a
\* failed scan skips it.
TaskDone_notDeferred(s) ==
    /\ task[s] = "sent"
    /\ wg' = IF taskOut[s].err # NoErr THEN wg ELSE wg - 1
    /\ task' = [task EXCEPT ![s] = "exited"]
    /\ UNCHANGED <<policyVars, cliVars, ctxVars>>
    /\ UNCHANGED <<cfg, scanners, packages, mode, onProgress, pc, idx, filtered,
                   taskOut, closer, resultsChan, errChan, chanClosed, chanNil,
                   results, firstErr, ret, retErr, scanArgs, availCalls, errsSeen,
                   progressLog>>

\* The deferred wg.Done().
TaskDone(s) ==
    /\ task[s] = "sent"
    /\ wg' = wg - 1
    /\ task' = [task EXCEPT ![s] = "exited"]
    /\ UNCHANGED <<policyVars, cliVars, ctxVars>>
    /\ UNCHANGED <<cfg, scanners, packages, mode, onProgress, pc, idx, filtered,
                   taskOut, closer, resultsChan, errChan, chanClosed, chanNil,
                   results, firstErr, ret, retErr, scanArgs, availCalls, errsSeen,
                   progressLog>>

\* ------------------------------------------------------ the closing goroutine
\* Mutant of CloseResults: the channel is closed without waiting for the tasks.
CloseResults_noWait ==
    /\ closer = "waiting"
    /\ chanClosed' = chanClosed \cup {"results"}
    /\ closer' = "closedResults"
    /\ UNCHANGED <<policyVars, cliVars, ctxVars>>
    /\ UNCHANGED <<cfg, scanners, packages, mode, onProgress, pc, idx, filtered, task,
                   taskOut, wg, resultsChan, errChan, chanNil,
                   results, firstErr, ret, retErr, scanArgs, availCalls, errsSeen,
                   progressLog>>

\* wg.Wait() returns; close(resultsChan).
CloseResults ==
    /\ closer = "waiting"
    /\ wg = 0
    /\ chanClosed' = chanClosed \cup {"results"}
    /\ closer' = "closedResults"
    /\ UNCHANGED <<policyVars, cliVars, ctxVars>>
    /\ UNCHANGED <<cfg, scanners, packages, mode, onProgress, pc, idx, filtered, task,
                   taskOut, wg, resultsChan, errChan, chanNil,
                   results, firstErr, ret, retErr, scanArgs, availCalls, errsSeen,
                   progressLog>>

\* close(errChan).
CloseErr ==
    /\ closer = "closedResults"
    /\ chanClosed' = chanClosed \cup {"err"}
    /\ closer' = "exited"
    /\ UNCHANGED <<policyVars, cliVars, ctxVars>>
    /\ UNCHANGED <<cfg, scanners, packages, mode, onProgress, pc, idx, filtered, task,
                   taskOut, wg, resultsChan, errChan, chanNil,
                   results, firstErr, ret, retErr, scanArgs, availCalls, errsSeen,
                   progressLog>>

Next ==
    \/ ReturnEmpty
    \/ Begin
    \/ SkipUnavailable
    \/ Launch
    \/ StartCloser
    \/ RecvResult
    \/ RecvResultsClosed
    \/ RecvErr
    \/ RecvErrClosed
    \/ ReturnError
    \/ ReturnResult
    \/ \E s \in ScannerNames : TaskStarted(s)
    \/ \E s \in ScannerNames : TaskQuery(s)
    \/ \E s \in ScannerNames : TaskScan(s)
    \/ \E s \in ScannerNames : TaskFinished(s)
    \/ \E s \in ScannerNames : TaskSend(s)
    \/ \E s \in ScannerNames : TaskDone(s)
    \/ CloseResults
    \/ CloseErr

\* A call whose caller does not cancel.
Spec == Init /\ [][Next]_vars

\* The Go scheduler lets every goroutine that can take a step take one: the
\* calling goroutine, each scanner goroutine (whose scanner.Scan returns) and
\* the closing goroutine. Nothing makes the caller cancel.
Fairness ==
    /\ WF_vars(ReturnEmpty \/ Begin \/ SkipUnavailable \/ Launch \/ StartCloser
                  \/ RecvResult \/ RecvResultsClosed \/ RecvErr \/ RecvErrClosed
                  \/ ReturnError \/ ReturnResult)
    /\ \A s \in ScannerNames :
          WF_vars(TaskStarted(s) \/ TaskQuery(s) \/ TaskScan(s) \/ TaskFinished(s)
                      \/ TaskSend(s) \/ TaskDone(s))
    /\ WF_vars(CloseResults \/ CloseErr)

\* A call on packages of one name with empty allowlist and blocklist, for
\* every set of configured and available scanners.
InitLive ==
    /\ Init
    /\ cfg.allowlist = {} /\ cfg.blocklist = {}
    /\ \A i \in 1..Len(packages) : packages[i] = Package("lodash")

\* A call under fair scheduling whose caller may cancel at any moment.
SpecLive == InitLive /\ [][Next \/ Cancel]_vars /\ Fairness

\* ------------------------------------------------- the policy evaluations
MaxPolicyFindings == 1

\* The types a scanner result is drawn from in the policy model: both
\* malware-class types, cve, and license for the types no rule names.
PolicyTypes ==
    {FindingTypeMalware, FindingTypeTyposquat, FindingTypeCVE, FindingTypeLicense}

Severities ==
    {SeverityCritical, SeverityHigh, SeverityMedium, SeverityLow, SeverityInfo}

\* The collected results the evaluated scan starts from: an optional Socket
\* result (any type, any severity) followed by an optional OSV result (type
\* cve, severity critical to low).
PolicyResultLists ==
    LET pkg == Package("lodash")
        socketFs == {Finding(pkg.name, pkg.version, t, v) :
                        t \in PolicyTypes, v \in Severities}
        osvFs == {Finding(pkg.name, pkg.version, FindingTypeCVE, v) :
                        v \in Severities \ {SeverityInfo}}
        socketOpts == {<<>>} \cup {<<ScanResult(SocketName, 1, fs)>> :
                                    fs \in SeqsUpTo(socketFs, MaxPolicyFindings)}
        osvOpts == {<<>>} \cup {<<ScanResult(OSVName, 1, fs)>> :
                                    fs \in SeqsUpTo(osvFs, MaxPolicyFindings)}
    IN {rs \in {so \o os : so \in socketOpts, os \in osvOpts} :
            Len(FlatFindings(rs)) <= MaxPolicyFindings}

\* The state of a scan of one package whose collector loop has ended without
\* an all-failed error; the package is blocklisted or not.
InitPolicy ==
    /\ cfg \in [allowlist : {{}}, blocklist : {{}, {"lodash"}},
                socketEnabled : {TRUE}, socketToken : {TRUE}, osvEnabled : {TRUE}]
    /\ scanners = NewOrchestrator(cfg)
    /\ packages = <<Package("lodash")>>
    /\ mode \in {"Scan", "ScanWithProgress"}
    /\ onProgress = FALSE
    /\ pc = "tail"
    /\ idx = Len(scanners) + 1
    /\ filtered = filterAllowlisted(cfg, packages)
    /\ task = [s \in ScannerNames |-> "exited"]
    /\ taskOut = [s \in ScannerNames |-> NoResult]
    /\ wg = 0
    /\ closer = "exited"
    /\ resultsChan = <<>>
    /\ errChan = <<>>
    /\ chanClosed = {"results", "err"}
    /\ chanNil = {"results", "err"}
    /\ results \in PolicyResultLists
    /\ firstErr = NoErr
    /\ ret = NoResult
    /\ retErr = NoErr
    /\ scanArgs = [s \in ScannerNames |-> <<filtered>>]
    /\ availCalls = ScannerNames
    /\ errsSeen = <<>>
    /\ progressLog = <<>>
    /\ policy = NoPolicy
    /\ command = "none"
    /\ decision = NotEvaluated
    /\ ctxDone = FALSE
    /\ queryCtx = [s \in ScannerNames |-> NoCtx]
    /\ NoInstall

\* The install command evaluates the scan result: evaluateScanResults.
EvaluateInstall ==
    /\ pc = "done" /\ retErr = NoErr
    /\ command = "none"
    /\ \E p \in Policies :
          /\ policy' = p
          /\ decision' = evaluateScanResults(p, ret)
    /\ command' = "install"
    /\ UNCHANGED <<cliVars, ctxVars>>
    /\ UNCHANGED <<cfg, scanners, packages, mode, onProgress, pc, idx, filtered, task,
                   taskOut, wg, closer, resultsChan, errChan, chanClosed, chanNil,
                   results, firstErr, ret, retErr, scanArgs, availCalls, errsSeen,
                   progressLog>>

\* The scan command (text output) evaluates the scan result: outputTextResult.
EvaluateScan ==
    /\ pc = "done" /\ retErr = NoErr
    /\ command = "none"
    /\ \E p \in Policies :
          /\ policy' = p
          /\ decision' = outputTextResult(p, ret)
    /\ command' = "scan"
    /\ UNCHANGED <<cliVars, ctxVars>>
    /\ UNCHANGED <<cfg, scanners, packages, mode, onProgress, pc, idx, filtered, task,
                   taskOut, wg, closer, resultsChan, errChan, chanClosed, chanNil,
                   results, firstErr, ret, retErr, scanArgs, availCalls, errsSeen,
                   progressLog>>

NextPolicy ==
    \/ ReturnResult
    \/ EvaluateInstall
    \/ EvaluateScan

SpecPolicy == InitPolicy /\ [][NextPolicy]_vars

\* ------------------------------------------------------------------ claims
\* The scanners whose Scan was invoked, and those that returned a result or an
\* error.
Invoked == {s \in ScannerNames : scanArgs[s] # <<>>}

Succeeded == {s \in ScannerNames : taskOut[s] # NoResult /\ taskOut[s].err = NoErr}

Failed == {s \in ScannerNames : taskOut[s] # NoResult /\ taskOut[s].err # NoErr}

Returned == pc = "done"

BlocklistedIdx == {i \in 1..Len(packages) : packages[i].name \in cfg.blocklist}

HasPolicyFinding(ar, pkg) ==
    \E j \in 1..Len(ar.results) :
        /\ ar.results[j].scanner = "policy"
        /\ \E k \in 1..Len(ar.results[j].findings) :
              LET f == ar.results[j].findings[k] IN
                  /\ f.package = pkg.name
                  /\ f.type = FindingTypeMalware
                  /\ f.severity = SeverityCritical

RECURSIVE SumFindings(_)
SumFindings(S) ==
    IF S = {} THEN 0
    ELSE LET s == CHOOSE x \in S : TRUE
         IN Len(taskOut[s].result.findings) + SumFindings(S \ {s})

\* C1 (as stated): every Scan of a package list with a blocklisted package
\* returns a result with a critical malware finding by "policy" for it and
\* has_malware = true, whatever the scanners did (also when all of them fail).
C1_BlocklistAlwaysReported ==
    (Returned /\ mode = "Scan" /\ BlocklistedIdx # {}) =>
        /\ ret # NoResult
        /\ ret.has_malware
        /\ \A i \in BlocklistedIdx : HasPolicyFinding(ret, packages[i])

\* C1 (amended): every Scan of a package list with a blocklisted package in
\* which not every invoked scanner failed returns a result with a critical
\* malware finding by "policy" for each blocklisted package and has_malware =
\* true, allowlisted or not; when every invoked scanner failed it returns the
\* error and no result.
C1_BlocklistReportedUnlessAllFail ==
    (Returned /\ mode = "Scan" /\ BlocklistedIdx # {}) =>
        IF Invoked # {} /\ Invoked \subseteq Failed
            THEN ret = NoResult /\ retErr # NoErr
            ELSE /\ ret # NoResult
                 /\ retErr = NoErr
                 /\ ret.has_malware
                 /\ \A i \in BlocklistedIdx : HasPolicyFinding(ret, packages[i])

\* C1 witness: Scan returned the policy finding for a package that is both
\* allowlisted and blocklisted, while one scanner failed and the other succeeded.
C1_Witness ==
    /\ Returned /\ mode = "Scan"
    /\ Failed # {} /\ Succeeded # {}
    /\ \E i \in BlocklistedIdx :
          /\ packages[i].name \in cfg.allowlist
          /\ ret # NoResult
          /\ HasPolicyFinding(ret, packages[i])

\* C2: when at least one invoked scanner succeeds, Scan returns no error and a
\* result whose total_findings is the number of findings of the successful
\* scanners plus the number of blocklisted packages; a failed scanner has no
\* entry in results.
C2_PartialFailureTolerated ==
    (Returned /\ mode = "Scan" /\ Succeeded # {}) =>
        /\ retErr = NoErr
        /\ ret # NoResult
        /\ ret.total_findings = SumFindings(Succeeded) + Cardinality(BlocklistedIdx)
        /\ \A j \in 1..Len(ret.results) : ret.results[j].scanner \notin Failed
        /\ \A s \in Succeeded :
              \E j \in 1..Len(ret.results) : ret.results[j] = taskOut[s].result

\* C2 witness: one scanner failed, the other succeeded with 2 findings, and
\* Scan returned total_findings = 2 without error.
C2_Witness ==
    /\ Returned /\ mode = "Scan"
    /\ Failed # {}
    /\ \E s \in Succeeded : Len(taskOut[s].result.findings) = 2
    /\ retErr = NoErr
    /\ ret.total_findings = 2

\* C3: Scan returns an error exactly when at least one scanner was invoked and
\* every invoked scanner failed; then it returns no result, and the error is
\* the first one the collector received, which is one of the failing scanners'.
C3_ErrorIffAllFailed ==
    Returned =>
        /\ (retErr # NoErr) <=> (Invoked # {} /\ Invoked \subseteq Failed)
        /\ (retErr # NoErr) =>
              /\ ret = NoResult
              /\ errsSeen # <<>>
              /\ retErr = errsSeen[1]
              /\ \E s \in Failed : retErr = taskOut[s].err

\* C3 witness: both scanners failed and the error returned is that of the
\* second scanner of o.scanners, received first.
C3_Witness ==
    /\ Returned
    /\ Failed = {SocketName, OSVName}
    /\ ret = NoResult
    /\ retErr = ErrOf(OSVName)
    /\ errsSeen = <<ErrOf(OSVName), ErrOf(SocketName)>>

\* C4: with an empty package list nothing is ever launched, asked or reported,
\* and the call returns the zero result without error.
C4_EmptyInput ==
    (Len(packages) = 0) =>
        /\ availCalls = {}
        /\ Invoked = {}
        /\ \A s \in ScannerNames : task[s] = "none"
        /\ progressLog = <<>>
        /\ pc \in {"entry", "done"}
        /\ Returned =>
              /\ retErr = NoErr
              /\ ret # NoResult
              /\ ret.total_packages = 0
              /\ ret.total_findings = 0
              /\ ~ret.has_malware /\ ~ret.has_critical /\ ~ret.has_high
              /\ ret.results = <<>>

\* C4 witness: ScanWithProgress with a callback and an available scanner
\* returned for an empty package list.
C4_Witness ==
    /\ Returned
    /\ Len(packages) = 0
    /\ mode = "ScanWithProgress" /\ onProgress
    /\ AvailableScanners(cfg, scanners) # {}
    /\ ret = ZeroResult

\* The positions of packages whose name is not allowlisted.
KeptIdx == {i \in 1..Len(packages) : packages[i].name \notin cfg.allowlist}

\* C5: the package list every scanner is given holds no allowlisted package and
\* holds every other input package, in input order; all scanners get the same.
C5_ScannersGetFiltered ==
    \A s \in Invoked : \A c \in 1..Len(scanArgs[s]) :
        LET given == scanArgs[s][c] IN
            /\ \A i \in 1..Len(given) : given[i].name \notin cfg.allowlist
            /\ Len(given) = Cardinality(KeptIdx)
            /\ \A i \in KeptIdx :
                  given[Cardinality({j \in KeptIdx : j <= i})] = packages[i]
            /\ \A t \in Invoked : \A d \in 1..Len(scanArgs[t]) : scanArgs[t][d] = given

\* C5 witness: both scanners were given a non-empty list from which an
\* allowlisted package of the input was removed.
C5_Witness ==
    /\ Invoked = {SocketName, OSVName}
    /\ Len(scanArgs[OSVName][1]) > 0
    /\ Len(scanArgs[OSVName][1]) < Len(packages)

\* C6 (as stated): ScanWithProgress returns what Scan returns for the same
\* configuration, packages and collected scanner results.
C6_ProgressSameAsScan ==
    (Returned /\ mode = "ScanWithProgress" /\ retErr = NoErr /\ ~IsEmptyInput(packages)) =>
        LET asScan == ScanTail(cfg, packages, filtered, results) IN
            /\ ret.results = asScan.results
            /\ ret.total_packages = asScan.total_packages
            /\ ret.total_findings = asScan.total_findings
            /\ ret.has_malware = asScan.has_malware
            /\ ret.has_critical = asScan.has_critical
            /\ ret.has_high = asScan.has_high

\* A policy evaluation has run on the returned result.
Evaluated == command # "none"

Blocked == decision.code = ExitSecurityBlock

RetFindings == AllFindings(ret)

\* C7, first half: has_malware with malware action block is a Block in both
\* evaluations.
C7_MalwareBlockBlocks ==
    (Evaluated /\ ret.has_malware /\ policy.malware = "block") => Blocked

\* C7 (as stated): has_malware with malware action block is a Block in both
\* evaluations, and with malware action warn or ignore a result holding only
\* malware (or typosquat) findings is never a Block.
C7_MalwareRule ==
    Evaluated =>
        /\ (ret.has_malware /\ policy.malware = "block") => Blocked
        /\ (/\ policy.malware \in {"warn", "ignore"}
            /\ \A i \in 1..Len(RetFindings) : IsMalwareType(RetFindings[i].type))
                => ~Blocked

SeverityReason(sev) ==
    CASE sev = SeverityCritical -> "critical vulnerabilities detected"
      [] sev = SeverityHigh -> "high vulnerabilities detected"
      [] sev = SeverityMedium -> "medium vulnerabilities detected"
      [] sev = SeverityLow -> "low vulnerabilities detected"

\* A CVE-type finding of severity sev is in the result and the policy maps sev
\* to block.
BlockingCVE(sev) ==
    /\ sev \in DOMAIN policy.cve
    /\ policy.cve[sev] = "block"
    /\ \E i \in 1..Len(RetFindings) :
          RetFindings[i].type = FindingTypeCVE /\ RetFindings[i].severity = sev

\* C8 (as stated): a CVE finding of a severity mapped to block is a Block in
\* both evaluations, with reason "<severity> vulnerabilities detected" when
\* nothing else blocks; no result without such a CVE finding is blocked for
\* that reason.
C8_CVERule ==
    Evaluated =>
        \A s \in 1..Len(CVESeverities) :
            LET sev == CVESeverities[s] IN
                /\ BlockingCVE(sev) => Blocked
                /\ (/\ BlockingCVE(sev)
                    /\ ~ret.has_malware
                    /\ \A t \in 1..Len(CVESeverities) : t # s => ~BlockingCVE(CVESeverities[t]))
                        => decision = SecurityBlockError(SeverityReason(sev))
                /\ (Blocked /\ decision.message = SeverityReason(sev)) => BlockingCVE(sev)

\* The policy leaves sev unmapped or maps it to warn or ignore.
NotBlockMapped(sev) ==
    sev \notin DOMAIN policy.cve \/ policy.cve[sev] \in {"warn", "ignore"}

\* C9: a result without malware-class findings all of whose findings have a
\* severity that is unmapped or mapped to warn or ignore is a Pass in both
\* evaluations.
C9_WarnIgnoreNeverBlock ==
    (/\ Evaluated
     /\ ~ret.has_malware
     /\ \A i \in 1..Len(RetFindings) : NotBlockMapped(RetFindings[i].severity))
        => decision = NilError

\* C9 witness: policy {malware: block, cve: {critical: block, high: warn,
\* medium: warn, low: ignore}}, one high-severity CVE finding, no malware: the
\* install command's evaluation passes.
C9_Witness ==
    /\ command = "install"
    /\ policy.malware = "block"
    /\ DOMAIN policy.cve = {SeverityCritical, SeverityHigh, SeverityMedium, SeverityLow}
    /\ policy.cve[SeverityCritical] = "block"
    /\ policy.cve[SeverityHigh] = "warn"
    /\ policy.cve[SeverityMedium] = "warn"
    /\ policy.cve[SeverityLow] = "ignore"
    /\ Len(RetFindings) = 1
    /\ RetFindings[1].type = FindingTypeCVE
    /\ RetFindings[1].severity = SeverityHigh
    /\ ~ret.has_malware
    /\ decision = NilError

\* ------------------------------------------------------ the install command
ExitGeneralError == 1
ExitConfigError == 3
ExitContainerError == 4
ExitNetworkError == 5
ExitScannerError == 6
ExitManifestError == 7
ExitUserAbort == 130

\* errors.ManifestError("no package.json found", nil)
ManifestError == [code |-> ExitManifestError, message |-> "no package.json found"]

\* Mutant of ScannerError: the scanner failure carries the security-block code.
ScannerError_asBlock ==
    [code |-> ExitSecurityBlock, message |-> "security scanner failed"]

\* errors.ScannerError("security", err)
ScannerError == [code |-> ExitScannerError, message |-> "security scanner failed"]

\* errors.UserAbortError()
UserAbortError == [code |-> ExitUserAbort, message |-> "operation cancelled by user"]

\* errors.ContainerNotAvailableError()
ContainerNotAvailableError ==
    [code |-> ExitContainerError, message |-> "Apple container runtime not available"]

\* The exit codes the command run in the container can end with, besides 0
\* (any code of the installer; two of them here).
ContainerExitCodes == {1, 2}

\* What AppleRuntime.Run returns: nil, the exit code of the container
\* command, or a failure to execute it.
RunOutcomes ==
    {NilError, [code |-> ExitContainerError, message |-> "container execution failed"]}
    \cup {[code |-> c, message |-> "container command failed"] : c \in ContainerExitCodes}

\* Lines of input as sequences of characters.
Upper == <<"A", "B", "C", "D", "E", "F", "G", "H", "I", "J", "K", "L", "M",
           "N", "O", "P", "Q", "R", "S", "T", "U", "V", "W", "X", "Y", "Z">>

Lower == <<"a", "b", "c", "d", "e", "f", "g", "h", "i", "j", "k", "l", "m",
           "n", "o", "p", "q", "r", "s", "t", "u", "v", "w", "x", "y", "z">>

\* Mutant of ToLower: the letters keep their case.
ToLower_unchanged(str) == str

\* strings.ToLower
ToLower(str) ==
    [i \in 1..Len(str) |->
        IF \E k \in 1..Len(Upper) : Upper[k] = str[i]
            THEN Lower[CHOOSE k \in 1..Len(Upper) : Upper[k] = str[i]]
            ELSE str[i]]

IsSpace(c) == c \in {" ", "\t", "\n", "\r"}

\* strings.TrimSpace
RECURSIVE TrimLeft(_)
TrimLeft(str) ==
    IF str # <<>> /\ IsSpace(Head(str)) THEN TrimLeft(Tail(str)) ELSE str

RECURSIVE TrimRight(_)
TrimRight(str) ==
    IF str # <<>> /\ IsSpace(str[Len(str)])
        THEN TrimRight(SubSeq(str, 1, Len(str) - 1))
        ELSE str

TrimSpace(str) == TrimRight(TrimLeft(str))

PhraseUnsecure == <<"u", "n", "s", "e", "c", "u", "r", "e">>

PhraseForce == <<"f", "o", "r", "c", "e">>

\* What reader.ReadString('\n') returns: the text read and whether it failed.
Line(text) == [err |-> FALSE, text |-> text \o <<"\n">>]

PromptInputs ==
    {Line(PhraseUnsecure),
     Line(PhraseForce),
     Line(<<" ", "F", "o", "r", "c", "e", " ">>),
     Line(<<"\t", "U", "N", "S", "E", "C", "U", "R", "E", "\r">>),
     Line(PhraseForce \o <<"d">>),
     Line(<<"u", "n", " ", "s", "e", "c", "u", "r", "e">>),
     Line(<<>>),
     [err |-> TRUE, text |-> PhraseForce]}

\* UI.PromptUnsecure, given the line read
PromptUnsecure(in) ==
    IF in.err THEN FALSE ELSE TrimSpace(ToLower(in.text)) = PhraseUnsecure

\* Mutant of PromptForce: every line that could be read overrides.
PromptForce_anyLine(in) == ~in.err

\* UI.PromptForce, given the line read
PromptForce(in) ==
    IF in.err THEN FALSE ELSE TrimSpace(ToLower(in.text)) = PhraseForce

\* The orders in which the results of the scanners of S can be collected.
Orders(S) ==
    {f \in [1..Cardinality(S) -> S] : \A i, j \in 1..Cardinality(S) : f[i] = f[j] => i = j}

\* What ScanWithProgress can return for a non-empty package list, as pairs of
\* a result and an error, with what each scanner returned: every available
\* scanner is run on the filtered packages; all failed is the first error
\* received; otherwise the successes, in any order, are aggregated.
ProgressReturns(c, ss, pkgs) ==
    LET avail == AvailableScanners(c, ss)
        fp == filterAllowlisted(c, pkgs)
        outs == {o \in [ScannerNames -> UNION {ScanOutcomes(x, fp) : x \in ScannerNames}
                                          \cup {NoResult}] :
                    \A x \in ScannerNames :
                        IF x \in avail THEN o[x] \in ScanOutcomes(x, fp)
                                       ELSE o[x] = NoResult}
        ok(o) == {x \in avail : o[x].err = NoErr}
    IN UNION {
        IF ok(o) = {} /\ avail # {}
            THEN {[out |-> o, results |-> <<>>, ret |-> NoResult, err |-> o[x].err] :
                    x \in avail}
            ELSE {[out |-> o,
                   results |-> [i \in 1..Cardinality(ok(o)) |-> o[ord[i]].result],
                   ret |-> ProgressTail(c, pkgs, fp,
                              [i \in 1..Cardinality(ok(o)) |-> o[ord[i]].result]),
                   err |-> NoErr] : ord \in Orders(ok(o))}
        : o \in outs}

\* The policies of the install model: the malware action and the action for
\* high-severity CVEs, each block or warn.
InstallPolicies ==
    {p \in Policies : /\ p.malware \in {"block", "warn"}
                      /\ DOMAIN p.cve = {SeverityHigh}
                      /\ p.cve[SeverityHigh] \in {"block", "warn"}}

InstallConfigs ==
    [allowlist : {{}}, blocklist : {{}, {"malicious-lib"}},
     socketEnabled : BOOLEAN, socketToken : BOOLEAN, osvEnabled : BOOLEAN,
     scanningEnabled : BOOLEAN, allowOverride : BOOLEAN, containerEnabled : BOOLEAN]

\* runInstall is entered with the configuration loaded and the flags parsed.
InitInstall ==
    /\ cfg \in InstallConfigs
    /\ policy \in InstallPolicies
    /\ flags \in [skipScan : BOOLEAN, force : BOOLEAN, noContainer : BOOLEAN]
    /\ args \in {<<>>, <<"malicious-lib">>}
    /\ command = "install"
    /\ ipc = "start"
    /\ decision = NotEvaluated
    /\ scanErr = NilError
    /\ prompts = <<>>
    /\ installerRan = FALSE
    /\ cliErr = NilError
    /\ jsonOut = NoOutput
    /\ project = NoProject
    /\ ctxDone = FALSE
    /\ queryCtx = [s \in ScannerNames |-> NoCtx]
    /\ scanners = <<>>
    /\ packages = <<>>
    /\ mode = "ScanWithProgress"
    /\ onProgress = TRUE
    /\ pc = "entry"
    /\ idx = 1
    /\ filtered = <<>>
    /\ task = [s \in ScannerNames |-> "none"]
    /\ taskOut = [s \in ScannerNames |-> NoResult]
    /\ wg = 0
    /\ closer = "none"
    /\ resultsChan = <<>>
    /\ errChan = <<>>
    /\ chanClosed = {}
    /\ chanNil = {}
    /\ results = <<>>
    /\ firstErr = NoErr
    /\ ret = NoResult
    /\ retErr = NoErr
    /\ scanArgs = [s \in ScannerNames |-> <<>>]
    /\ availCalls = {}
    /\ errsSeen = <<>>
    /\ progressLog = <<>>

\* What the steps of the install command leave alone in the orchestrator.
installFrame ==
    <<mode, onProgress, pc, idx, wg, closer, resultsChan, errChan, chanClosed,
      chanNil, firstErr, availCalls, errsSeen, progressLog, policy, command,
      flags, args, jsonOut, project,
      ctxDone, queryCtx>>

\* if !parser.HasManifest(): return errors.ManifestError(...)
InstallNoManifest ==
    /\ ipc = "start"
    /\ cliErr' = ManifestError
    /\ ipc' = "done"
    /\ UNCHANGED <<cfg, scanners, packages, filtered, task, taskOut, results, ret,
                   retErr, scanArgs, decision, scanErr, prompts, installerRan>>
    /\ UNCHANGED installFrame

\* if cfg.Scanning.Enabled && !skipScan: enter runSecurityScan.
InstallBegin ==
    /\ ipc = "start"
    /\ ipc' = IF cfg.scanningEnabled /\ ~flags.skipScan THEN "scan" ELSE "container"
    /\ UNCHANGED <<cfg, scanners, packages, filtered, task, taskOut, results, ret,
                   retErr, scanArgs, decision, scanErr, prompts, installerRan, cliErr>>
    /\ UNCHANGED installFrame

\* The Socket token is missing: PromptUnsecure; refused is UserAbortError,
\* accepted disables the Socket scanner.
AckUnsecure ==
    /\ ipc = "scan"
    /\ ~HasSocketToken(cfg) /\ cfg.socketEnabled
    /\ \E in \in PromptInputs :
          /\ prompts' = Append(prompts, <<"unsecure", in>>)
          /\ IF PromptUnsecure(in)
                THEN /\ cfg' = [cfg EXCEPT !.socketEnabled = FALSE]
                     /\ ipc' = "deps"
                     /\ UNCHANGED scanErr
                ELSE /\ scanErr' = UserAbortError
                     /\ ipc' = "handle"
                     /\ UNCHANGED cfg
    /\ UNCHANGED <<scanners, packages, filtered, task, taskOut, results, ret,
                   retErr, scanArgs, decision, installerRan, cliErr>>
    /\ UNCHANGED installFrame

\* No acknowledgment is needed.
AckNotNeeded ==
    /\ ipc = "scan"
    /\ ~(~HasSocketToken(cfg) /\ cfg.socketEnabled)
    /\ ipc' = "deps"
    /\ UNCHANGED <<cfg, scanners, packages, filtered, task, taskOut, results, ret,
                   retErr, scanArgs, decision, scanErr, prompts, installerRan, cliErr>>
    /\ UNCHANGED installFrame

\* The new packages of the command line, named without a version:
\* parsePackageArg gives them the version "latest".
RECURSIVE PackagesOf(_)
PackagesOf(names) ==
    IF names = <<>> THEN <<>>
    ELSE <<[name |-> Head(names), version |-> "latest", ecosystem |-> "npm"]>>
            \o PackagesOf(Tail(names))

\* What parser.GetDependencies(true) gives (nothing when it fails).
DependencyLists == {<<>>, <<Package("lodash")>>}

\* Nothing to scan or no scanner available: runSecurityScan returns nil
\* without scanning.
ScanSkipped ==
    /\ ipc = "deps"
    /\ \E deps \in DependencyLists :
          /\ packages' = deps \o PackagesOf(args)
          /\ scanners' = IF Len(packages') = 0 THEN scanners ELSE NewOrchestrator(cfg)
          /\ Len(packages') = 0 \/ AvailableScanners(cfg, NewOrchestrator(cfg)) = {}
    /\ scanErr' = NilError
    /\ ipc' = "handle"
    /\ UNCHANGED <<cfg, filtered, task, taskOut, results, ret, retErr, scanArgs,
                   decision, prompts, installerRan, cliErr>>
    /\ UNCHANGED installFrame

\* orch.ScanWithProgress, then ScannerError or evaluateScanResults.
ScanAndEvaluate ==
    /\ ipc = "deps"
    /\ \E deps \in DependencyLists :
          /\ packages' = deps \o PackagesOf(args)
          /\ Len(packages') # 0
          /\ scanners' = NewOrchestrator(cfg)
          /\ AvailableScanners(cfg, scanners') # {}
          /\ \E r \in ProgressReturns(cfg, scanners', packages') :
                /\ filtered' = filterAllowlisted(cfg, packages')
                /\ taskOut' = r.out
                /\ task' = [s \in ScannerNames |->
                              IF r.out[s] = NoResult THEN "none" ELSE "exited"]
                /\ scanArgs' = [s \in ScannerNames |->
                                  IF r.out[s] = NoResult THEN <<>> ELSE <<filtered'>>]
                /\ results' = r.results
                /\ ret' = r.ret
                /\ retErr' = r.err
                /\ decision' = IF r.err # NoErr THEN NotEvaluated
                               ELSE evaluateScanResults(policy, r.ret)
                /\ scanErr' = IF r.err # NoErr THEN ScannerError ELSE decision'
    /\ ipc' = "handle"
    /\ UNCHANGED <<cfg, prompts, installerRan, cliErr>>
    /\ UNCHANGED installFrame

\* runSecurityScan returned nil: go on to the installation.
ScanPassed ==
    /\ ipc = "handle"
    /\ scanErr = NilError
    /\ ipc' = "container"
    /\ UNCHANGED <<cfg, scanners, packages, filtered, task, taskOut, results, ret,
                   retErr, scanArgs, decision, scanErr, prompts, installerRan, cliErr>>
    /\ UNCHANGED installFrame

\* if !force && !cfg.Scanning.Policy.AllowOverride { return err }
ScanErrorFinal ==
    /\ ipc = "handle"
    /\ scanErr # NilError
    /\ ~flags.force /\ ~cfg.allowOverride
    /\ cliErr' = scanErr
    /\ ipc' = "done"
    /\ UNCHANGED <<cfg, scanners, packages, filtered, task, taskOut, results, ret,
                   retErr, scanArgs, decision, scanErr, prompts, installerRan>>
    /\ UNCHANGED installFrame

\* if cfg.Scanning.Policy.AllowOverride && !force: PromptForce; refused is
\* UserAbortError, accepted goes on to the installation.
ScanErrorPrompt ==
    /\ ipc = "handle"
    /\ scanErr # NilError
    /\ cfg.allowOverride /\ ~flags.force
    /\ \E in \in PromptInputs :
          /\ prompts' = Append(prompts, <<"force", in>>)
          /\ IF PromptForce(in)
                THEN ipc' = "container" /\ UNCHANGED cliErr
                ELSE ipc' = "done" /\ cliErr' = UserAbortError
    /\ UNCHANGED <<cfg, scanners, packages, filtered, task, taskOut, results, ret,
                   retErr, scanArgs, decision, scanErr, installerRan>>
    /\ UNCHANGED installFrame

\* The force flag is set: go on to the installation without a prompt.
ScanErrorForced ==
    /\ ipc = "handle"
    /\ scanErr # NilError
    /\ flags.force
    /\ ipc' = "container"
    /\ UNCHANGED <<cfg, scanners, packages, filtered, task, taskOut, results, ret,
                   retErr, scanArgs, decision, scanErr, prompts, installerRan, cliErr>>
    /\ UNCHANGED installFrame

\* cfg.Container.Enabled && !noContainer, but the runtime is not available.
ContainerUnavailable ==
    /\ ipc = "container"
    /\ cfg.containerEnabled /\ ~flags.noContainer
    /\ cliErr' = ContainerNotAvailableError
    /\ ipc' = "done"
    /\ UNCHANGED <<cfg, scanners, packages, filtered, task, taskOut, results, ret,
                   retErr, scanArgs, decision, scanErr, prompts, installerRan>>
    /\ UNCHANGED installFrame

\* runtime.Run(ctx, opts): the installer command is executed in the container.
ContainerRun ==
    /\ ipc = "container"
    /\ cfg.containerEnabled /\ ~flags.noContainer
    /\ installerRan' = TRUE
    /\ \E e \in RunOutcomes : cliErr' = e
    /\ ipc' = "done"
    /\ UNCHANGED <<cfg, scanners, packages, filtered, task, taskOut, results, ret,
                   retErr, scanArgs, decision, scanErr, prompts>>
    /\ UNCHANGED installFrame

\* Without container isolation the command is only displayed.
NoContainerWarn ==
    /\ ipc = "container"
    /\ ~(cfg.containerEnabled /\ ~flags.noContainer)
    /\ cliErr' = NilError
    /\ ipc' = "done"
    /\ UNCHANGED <<cfg, scanners, packages, filtered, task, taskOut, results, ret,
                   retErr, scanArgs, decision, scanErr, prompts, installerRan>>
    /\ UNCHANGED installFrame

NextInstall ==
    \/ InstallNoManifest
    \/ InstallBegin
    \/ AckUnsecure
    \/ AckNotNeeded
    \/ ScanSkipped
    \/ ScanAndEvaluate
    \/ ScanPassed
    \/ ScanErrorFinal
    \/ ScanErrorPrompt
    \/ ScanErrorForced
    \/ ContainerUnavailable
    \/ ContainerRun
    \/ NoContainerWarn

SpecInstall == InitInstall /\ [][NextInstall]_vars

\* The security scan of the install command ended in a policy block.
PolicyBlocked == ipc \in {"handle", "container", "done"} /\ scanErr.code = ExitSecurityBlock

\* C10 (as stated): when the scan of the install command ends in a policy
\* block and allow_override is false, no override prompt is issued, the
\* command goes no further than returning the block error, and the installer
\* command is not executed.
C10_BlockFinalWithoutOverride ==
    (PolicyBlocked /\ ~cfg.allowOverride) =>
        /\ \A i \in 1..Len(prompts) : prompts[i][1] # "force"
        /\ ipc # "container"
        /\ ~installerRan
        /\ ipc = "done" => cliErr = scanErr

\* --------------------------------------------------------- the scan command
\* AggregatedResult.CountBySeverity
CountBySeverity(ar, sev) ==
    Cardinality({i \in 1..Len(AllFindings(ar)) : AllFindings(ar)[i].severity = sev})

\* AggregatedResult.CountByType
CountByType(ar, typ) ==
    Cardinality({i \in 1..Len(AllFindings(ar)) : AllFindings(ar)[i].type = typ})

\* Mutant of outputJSONResult: the total is the length of the scanners' results.
outputJSONResult_resultCount(ar) ==
    [packages_scanned |-> ar.total_packages,
     findings |-> AllFindings(ar),
     summary |-> [total |-> Len(ar.results),
                  critical |-> CountBySeverity(ar, SeverityCritical),
                  high |-> CountBySeverity(ar, SeverityHigh),
                  medium |-> CountBySeverity(ar, SeverityMedium),
                  low |-> CountBySeverity(ar, SeverityLow),
                  malware |-> CountByType(ar, FindingTypeMalware)
                                + CountByType(ar, FindingTypeTyposquat)]]

\* outputJSONResult: the object that is encoded on the standard output.
outputJSONResult(ar) ==
    [packages_scanned |-> ar.total_packages,
     findings |-> AllFindings(ar),
     summary |-> [total |-> ar.total_findings,
                  critical |-> CountBySeverity(ar, SeverityCritical),
                  high |-> CountBySeverity(ar, SeverityHigh),
                  medium |-> CountBySeverity(ar, SeverityMedium),
                  low |-> CountBySeverity(ar, SeverityLow),
                  malware |-> CountByType(ar, FindingTypeMalware)
                                + CountByType(ar, FindingTypeTyposquat)]]

\* What Scan can return for a non-empty package list: as ScanWithProgress,
\* with the blocklist loop after the aggregation.
ScanReturns(c, ss, pkgs) ==
    {[r EXCEPT !.ret = IF r.err = NoErr
                          THEN ScanTail(c, pkgs, filterAllowlisted(c, pkgs), r.results)
                          ELSE r.ret] : r \in ProgressReturns(c, ss, pkgs)}

\* errors.ManifestError("failed to parse dependencies", err)
DependenciesError ==
    [code |-> ExitManifestError, message |-> "failed to parse dependencies"]

\* The policies of the scan command model: the malware action and the action
\* for critical CVEs, each block or warn.
ScanCmdPolicies ==
    {p \in Policies : /\ p.malware \in {"block", "warn"}
                      /\ DOMAIN p.cve = {SeverityCritical}
                      /\ p.cve[SeverityCritical] \in {"block", "warn"}}

ScanCmdConfigs ==
    [allowlist : {{}}, blocklist : {{}, {"lodash"}},
     socketEnabled : BOOLEAN, socketToken : BOOLEAN, osvEnabled : BOOLEAN]

\* runScan is entered with the configuration loaded and the flags parsed.
InitScanCmd ==
    /\ cfg \in ScanCmdConfigs
    /\ policy \in ScanCmdPolicies
    /\ flags \in [json : BOOLEAN, includeDev : BOOLEAN]
    /\ args = <<>>
    /\ command = "scan"
    /\ ipc = "start"
    /\ decision = NotEvaluated
    /\ scanErr = NilError
    /\ prompts = <<>>
    /\ installerRan = FALSE
    /\ cliErr = NilError
    /\ jsonOut = NoOutput
    /\ project = NoProject
    /\ ctxDone = FALSE
    /\ queryCtx = [s \in ScannerNames |-> NoCtx]
    /\ scanners = <<>>
    /\ packages = <<>>
    /\ mode = IF flags.json THEN "Scan" ELSE "ScanWithProgress"
    /\ onProgress = ~flags.json
    /\ pc = "entry"
    /\ idx = 1
    /\ filtered = <<>>
    /\ task = [s \in ScannerNames |-> "none"]
    /\ taskOut = [s \in ScannerNames |-> NoResult]
    /\ wg = 0
    /\ closer = "none"
    /\ resultsChan = <<>>
    /\ errChan = <<>>
    /\ chanClosed = {}
    /\ chanNil = {}
    /\ results = <<>>
    /\ firstErr = NoErr
    /\ ret = NoResult
    /\ retErr = NoErr
    /\ scanArgs = [s \in ScannerNames |-> <<>>]
    /\ availCalls = {}
    /\ errsSeen = <<>>
    /\ progressLog = <<>>

\* What the steps of the scan command leave alone.
scanCmdFrame ==
    <<mode, onProgress, pc, idx, wg, closer, resultsChan, errChan, chanClosed,
      chanNil, firstErr, availCalls, errsSeen, progressLog, policy, command,
      flags, args, scanErr, installerRan, project,
      ctxDone, queryCtx>>

\* if !parser.HasManifest(): return errors.ManifestError(...)
ScanCmdNoManifest ==
    /\ ipc = "start"
    /\ cliErr' = ManifestError
    /\ ipc' = "done"
    /\ UNCHANGED <<cfg, scanners, packages, filtered, task, taskOut, results, ret,
                   retErr, scanArgs, decision, prompts, jsonOut>>
    /\ UNCHANGED scanCmdFrame

\* The manifest exists.
ScanCmdBegin ==
    /\ ipc = "start"
    /\ ipc' = "ack"
    /\ UNCHANGED <<cfg, scanners, packages, filtered, task, taskOut, results, ret,
                   retErr, scanArgs, decision, prompts, cliErr, jsonOut>>
    /\ UNCHANGED scanCmdFrame

\* The Socket token is missing, text output: PromptUnsecure; refused is
\* UserAbortError, accepted disables the Socket scanner.
ScanCmdAck ==
    /\ ipc = "ack"
    /\ ~HasSocketToken(cfg) /\ cfg.socketEnabled
    /\ ~flags.json
    /\ \E in \in PromptInputs :
          /\ prompts' = Append(prompts, <<"unsecure", in>>)
          /\ IF PromptUnsecure(in)
                THEN /\ cfg' = [cfg EXCEPT !.socketEnabled = FALSE]
                     /\ ipc' = "deps"
                     /\ UNCHANGED cliErr
                ELSE /\ cliErr' = UserAbortError
                     /\ ipc' = "done"
                     /\ UNCHANGED cfg
    /\ UNCHANGED <<scanners, packages, filtered, task, taskOut, results, ret,
                   retErr, scanArgs, decision, jsonOut>>
    /\ UNCHANGED scanCmdFrame

\* The Socket token is missing, JSON output: the Socket scanner is disabled
\* without a prompt.
ScanCmdAckJSON ==
    /\ ipc = "ack"
    /\ ~HasSocketToken(cfg) /\ cfg.socketEnabled
    /\ flags.json
    /\ cfg' = [cfg EXCEPT !.socketEnabled = FALSE]
    /\ ipc' = "deps"
    /\ UNCHANGED <<scanners, packages, filtered, task, taskOut, results, ret,
                   retErr, scanArgs, decision, prompts, cliErr, jsonOut>>
    /\ UNCHANGED scanCmdFrame

\* No acknowledgment is needed.
ScanCmdAckNotNeeded ==
    /\ ipc = "ack"
    /\ ~(~HasSocketToken(cfg) /\ cfg.socketEnabled)
    /\ ipc' = "deps"
    /\ UNCHANGED <<cfg, scanners, packages, filtered, task, taskOut, results, ret,
                   retErr, scanArgs, decision, prompts, cliErr, jsonOut>>
    /\ UNCHANGED scanCmdFrame

\* parser.GetDependencies failed.
ScanCmdDepsError ==
    /\ ipc = "deps"
    /\ cliErr' = DependenciesError
    /\ ipc' = "done"
    /\ UNCHANGED <<cfg, scanners, packages, filtered, task, taskOut, results, ret,
                   retErr, scanArgs, decision, prompts, jsonOut>>
    /\ UNCHANGED scanCmdFrame

\* No packages (JSON output: the empty result is written) or no scanner
\* available: runScan returns nil without scanning.
ScanCmdNothing ==
    /\ ipc = "deps"
    /\ \E deps \in DependencyLists :
          /\ packages' = deps
          /\ scanners' = IF Len(deps) = 0 THEN scanners ELSE NewOrchestrator(cfg)
          /\ Len(deps) = 0 \/ AvailableScanners(cfg, NewOrchestrator(cfg)) = {}
          /\ jsonOut' = IF Len(deps) = 0 /\ flags.json
                           THEN outputJSONResult(ZeroResult) ELSE jsonOut
    /\ cliErr' = NilError
    /\ ipc' = "done"
    /\ UNCHANGED <<cfg, filtered, task, taskOut, results, ret, retErr, scanArgs,
                   decision, prompts>>
    /\ UNCHANGED scanCmdFrame

\* orch.Scan (JSON output) or orch.ScanWithProgress (text output), then
\* ScannerError, outputJSONResult or outputTextResult.
ScanCmdScan ==
    /\ ipc = "deps"
    /\ \E deps \in DependencyLists :
          /\ packages' = deps
          /\ Len(deps) # 0
          /\ scanners' = NewOrchestrator(cfg)
          /\ AvailableScanners(cfg, scanners') # {}
          /\ \E r \in IF flags.json THEN ScanReturns(cfg, scanners', deps)
                                    ELSE ProgressReturns(cfg, scanners', deps) :
                /\ filtered' = filterAllowlisted(cfg, deps)
                /\ taskOut' = r.out
                /\ task' = [s \in ScannerNames |->
                              IF r.out[s] = NoResult THEN "none" ELSE "exited"]
                /\ scanArgs' = [s \in ScannerNames |->
                                  IF r.out[s] = NoResult THEN <<>> ELSE <<filtered'>>]
                /\ results' = r.results
                /\ ret' = r.ret
                /\ retErr' = r.err
                /\ decision' = IF r.err # NoErr \/ flags.json THEN NotEvaluated
                               ELSE outputTextResult(policy, r.ret)
                /\ cliErr' = IF r.err # NoErr THEN ScannerError
                             ELSE IF flags.json THEN NilError ELSE decision'
                /\ jsonOut' = IF r.err = NoErr /\ flags.json
                                 THEN outputJSONResult(r.ret) ELSE jsonOut
    /\ ipc' = "done"
    /\ UNCHANGED <<cfg, prompts>>
    /\ UNCHANGED scanCmdFrame

NextScanCmd ==
    \/ ScanCmdNoManifest
    \/ ScanCmdBegin
    \/ ScanCmdAck
    \/ ScanCmdAckJSON
    \/ ScanCmdAckNotNeeded
    \/ ScanCmdDepsError
    \/ ScanCmdNothing
    \/ ScanCmdScan

SpecScanCmd == InitScanCmd /\ [][NextScanCmd]_vars

\* ------------------------------------------------------------ aggregation
MaxAggFindings == 1

\* The results the collector can hand to the aggregation for one package: the
\* Socket result (any type, any severity) and the OSV result (type cve,
\* severity critical to low), each present or not, in either order.
AggResultLists ==
    LET pkg == Package("lodash")
        socketFs == {Finding(pkg.name, pkg.version, t, v) :
                        t \in PolicyTypes, v \in Severities}
        osvFs == {Finding(pkg.name, pkg.version, FindingTypeCVE, v) :
                        v \in Severities \ {SeverityInfo}}
        socketOpts == {<<>>} \cup {<<ScanResult(SocketName, 1, fs)>> :
                                    fs \in SeqsUpTo(socketFs, MaxAggFindings)}
        osvOpts == {<<>>} \cup {<<ScanResult(OSVName, 1, fs)>> :
                                    fs \in SeqsUpTo(osvFs, MaxAggFindings)}
    IN {so \o os : so \in socketOpts, os \in osvOpts}
        \cup {os \o so : so \in socketOpts, os \in osvOpts}

\* The state of a scan of one package whose collector loop has ended with
\* the results of the successful scanners.
InitAggregate ==
    /\ cfg \in [allowlist : {{}}, blocklist : {{}, {"lodash"}},
                socketEnabled : {TRUE}, socketToken : {TRUE}, osvEnabled : {TRUE}]
    /\ scanners = NewOrchestrator(cfg)
    /\ packages = <<Package("lodash")>>
    /\ mode \in {"Scan", "ScanWithProgress"}
    /\ onProgress = FALSE
    /\ pc = "tail"
    /\ idx = Len(scanners) + 1
    /\ filtered = filterAllowlisted(cfg, packages)
    /\ task = [s \in ScannerNames |-> "exited"]
    /\ taskOut = [s \in ScannerNames |-> NoResult]
    /\ wg = 0
    /\ closer = "exited"
    /\ resultsChan = <<>>
    /\ errChan = <<>>
    /\ chanClosed = {"results", "err"}
    /\ chanNil = {"results", "err"}
    /\ results \in AggResultLists
    /\ firstErr = NoErr
    /\ ret = NoResult
    /\ retErr = NoErr
    /\ scanArgs = [s \in ScannerNames |-> <<filtered>>]
    /\ availCalls = ScannerNames
    /\ errsSeen = <<>>
    /\ progressLog = <<>>
    /\ policy = NoPolicy
    /\ command = "none"
    /\ decision = NotEvaluated
    /\ ctxDone = FALSE
    /\ queryCtx = [s \in ScannerNames |-> NoCtx]
    /\ NoInstall

NextAggregate == ReturnResult

SpecAggregate == InitAggregate /\ [][NextAggregate]_vars

\* ------------------------------------------------- the manifest parser
\* Strings are written as sequences of tokens: the separator "/", the scope
\* marker "@", version prefixes, and runs of other characters.
MaxEntries == 2

RECURSIVE Join(_)
Join(tokens) == IF tokens = <<>> THEN "" ELSE Head(tokens) \o Join(Tail(tokens))

\* filepath.Base: trailing separators are dropped, then everything up to the
\* last separator.
RECURSIVE StripSeparators(_)
StripSeparators(path) ==
    IF path # <<>> /\ path[Len(path)] = "/"
        THEN StripSeparators(SubSeq(path, 1, Len(path) - 1))
        ELSE path

RECURSIVE LastElement(_)
LastElement(path) ==
    IF path = <<>> \/ path[Len(path)] = "/" THEN <<>>
    ELSE Append(LastElement(SubSeq(path, 1, Len(path) - 1)), path[Len(path)])

Base(path) ==
    IF path = <<>> THEN "."
    ELSE IF StripSeparators(path) = <<>> THEN "/"
    ELSE Join(LastElement(StripSeparators(path)))

\* Mutant of SkipEntry: dev entries are skipped whatever the caller asks for.
SkipEntry_devAlways(path, info, includeDev) ==
    \/ path = <<>>
    \/ info.dev
    \/ Base(path) = ""
    \/ info.version = ""

\* The entries of the lockfile GetDependencies passes over.
SkipEntry(path, info, includeDev) ==
    \/ path = <<>>
    \/ info.dev /\ ~includeDev
    \/ Base(path) = ""
    \/ info.version = ""

\* The lockfile branch of GetDependencies: one Package per entry kept, in
\* the order the map is iterated (any order).
LockfilePackages(lf, includeDev) ==
    LET kept == {path \in DOMAIN lf.packages :
                    ~SkipEntry(path, lf.packages[path], includeDev)}
    IN {[i \in 1..Cardinality(kept) |->
            [name |-> Base(ord[i]),
             version |-> lf.packages[ord[i]].version,
             ecosystem |-> "npm"]] : ord \in Orders(kept)}

VersionPrefixes == {"^", "~", ">=", "<=", ">", "<", "="}

\* cleanVersion: a leading prefix is removed when something follows it.
cleanVersion(version) ==
    IF Len(version) = 0 THEN ""
    ELSE IF Head(version) \in VersionPrefixes /\ Len(version) > 1
        THEN Join(Tail(version))
        ELSE Join(version)

\* One Package per entry of a dependencies map of package.json, in any order.
MapPackages(deps) ==
    {[i \in 1..Cardinality(DOMAIN deps) |->
        [name |-> ord[i], version |-> cleanVersion(deps[ord[i]]), ecosystem |-> "npm"]]
     : ord \in Orders(DOMAIN deps)}

\* The fallback branch of GetDependencies: the dependencies, then the
\* devDependencies when they are asked for.
ManifestPackages(m, includeDev) ==
    {a \o b : a \in MapPackages(m.dependencies),
              b \in IF includeDev THEN MapPackages(m.devDependencies) ELSE {<<>>}}

\* package.json cannot be read or parsed.
BadManifest == [bad |-> TRUE]

\* package-lock.json is missing or cannot be parsed.
NoLockfile == [lockfileVersion |-> 0, packages |-> <<>>]

\* errors.ManifestError("failed to read package.json", err)
ReadManifestError ==
    [code |-> ExitManifestError, message |-> "failed to read package.json"]

Manifests ==
    {BadManifest} \cup
    [dependencies : {<<>>} \cup [{"lodash"} -> {<<"^", "1.0.0">>, <<"^">>}],
     devDependencies : {<<>>} \cup [{"jest"} -> {<<"1.0.0">>}]]

\* node_modules/<name>, for an unscoped and a scoped name.
LockNames == {<<"lodash">>, <<"@", "babel", "/", "core">>}

Group(name) == <<"node_modules", "/">> \o name

\* The root entry, top-level and nested entries, and a malformed path.
LockPaths ==
    {<<>>, <<"node_modules", "/">>}
    \cup {Group(n) : n \in LockNames}
    \cup {Group(m) \o <<"/">> \o Group(n) : m, n \in LockNames}

LockInfos == [version : {"", "1.0.0", "2.0.0"}, dev : BOOLEAN]

Lockfiles ==
    {NoLockfile} \cup
    {[lockfileVersion |-> v, packages |-> pk] :
        v \in {1, 2},
        pk \in UNION {[D -> LockInfos] :
                        D \in {E \in SUBSET LockPaths : Cardinality(E) <= MaxEntries}}}

\* GetDependencies is called on a project directory.
InitManifest ==
    /\ project \in [manifest : Manifests, lockfile : Lockfiles]
    /\ ctxDone = FALSE
    /\ queryCtx = [s \in ScannerNames |-> NoCtx]
    /\ flags \in [includeDev : BOOLEAN]
    /\ args = <<>>
    /\ command = "none"
    /\ policy = NoPolicy
    /\ ipc = "start"
    /\ decision = NotEvaluated
    /\ scanErr = NilError
    /\ prompts = <<>>
    /\ installerRan = FALSE
    /\ cliErr = NilError
    /\ jsonOut = NoOutput
    /\ cfg = [allowlist |-> {}, blocklist |-> {}, socketEnabled |-> FALSE,
              socketToken |-> FALSE, osvEnabled |-> TRUE]
    /\ scanners = <<>>
    /\ packages = <<>>
    /\ mode = "Scan"
    /\ onProgress = FALSE
    /\ pc = "entry"
    /\ idx = 1
    /\ filtered = <<>>
    /\ task = [s \in ScannerNames |-> "none"]
    /\ taskOut = [s \in ScannerNames |-> NoResult]
    /\ wg = 0
    /\ closer = "none"
    /\ resultsChan = <<>>
    /\ errChan = <<>>
    /\ chanClosed = {}
    /\ chanNil = {}
    /\ results = <<>>
    /\ firstErr = NoErr
    /\ ret = NoResult
    /\ retErr = NoErr
    /\ scanArgs = [s \in ScannerNames |-> <<>>]
    /\ availCalls = {}
    /\ errsSeen = <<>>
    /\ progressLog = <<>>

\* What GetDependencies leaves alone.
manifestFrame ==
    <<cfg, scanners, mode, onProgress, pc, idx, filtered, task, taskOut, wg,
      closer, resultsChan, errChan, chanClosed, chanNil, results, firstErr, ret,
      retErr, scanArgs, availCalls, errsSeen, progressLog, policy, command,
      decision, flags, args, scanErr, prompts, installerRan, jsonOut, project,
      ctxDone, queryCtx>>

\* ParseManifest failed: return nil, err
GetDependenciesError ==
    /\ ipc = "start"
    /\ project.manifest = BadManifest
    /\ cliErr' = ReadManifestError
    /\ ipc' = "done"
    /\ UNCHANGED packages
    /\ UNCHANGED manifestFrame

\* lockfile != nil && lockfile.LockfileVersion >= 2
GetDependenciesLockfile ==
    /\ ipc = "start"
    /\ project.manifest # BadManifest
    /\ project.lockfile.lockfileVersion >= 2
    /\ packages' \in LockfilePackages(project.lockfile, flags.includeDev)
    /\ ipc' = "done"
    /\ UNCHANGED cliErr
    /\ UNCHANGED manifestFrame

\* No usable lockfile: the versions of package.json.
GetDependenciesManifest ==
    /\ ipc = "start"
    /\ project.manifest # BadManifest
    /\ project.lockfile.lockfileVersion < 2
    /\ packages' \in ManifestPackages(project.manifest, flags.includeDev)
    /\ ipc' = "done"
    /\ UNCHANGED cliErr
    /\ UNCHANGED manifestFrame

NextManifest ==
    \/ GetDependenciesError
    \/ GetDependenciesLockfile
    \/ GetDependenciesManifest

SpecManifest == InitManifest /\ [][NextManifest]_vars

\* ------------------------------------------------------------------ claims
\* The character c is the lower-case letter p or its upper-case form.
SameLetter(c, p) == c = p \/ \E k \in 1..Len(Lower) : Lower[k] = p /\ Upper[k] = c

\* The line read is the phrase, in any case, with only white space around it.
EntersPhrase(in, phrase) ==
    /\ ~in.err
    /\ \E i \in 1..Len(in.text) :
          /\ i + Len(phrase) - 1 <= Len(in.text)
          /\ \A k \in 1..Len(phrase) : SameLetter(in.text[i + k - 1], phrase[k])
          /\ \A k \in 1..Len(in.text) :
                (k < i \/ k > i + Len(phrase) - 1) => in.text[k] \in {" ", "\t", "\n", "\r"}

\* The answers given to the prompt of the named kind.
Answers(kind) == {prompts[i][2] : i \in {j \in 1..Len(prompts) : prompts[j][1] = kind}}

\* C11: after a policy block with allow_override and without the force flag,
\* the command goes on to the installation only when the user was asked and
\* entered "force"; after any other answer it ends with the user-abort error
\* and the installer is not executed.
C11_OverrideOnlyAfterForce ==
    (PolicyBlocked /\ cfg.allowOverride /\ ~flags.force) =>
        /\ (ipc = "container" \/ installerRan) =>
              \E in \in Answers("force") : EntersPhrase(in, PhraseForce)
        /\ (\E in \in Answers("force") : ~EntersPhrase(in, PhraseForce)) =>
              /\ ipc = "done"
              /\ cliErr = UserAbortError
              /\ ~installerRan
        /\ ipc = "done" => Answers("force") # {}

\* C11 witness: the block was overridden by an entry of "force" and the
\* installer was executed.
C11_Witness ==
    /\ PolicyBlocked /\ cfg.allowOverride /\ ~flags.force
    /\ installerRan
    /\ \E in \in Answers("force") : in.text # PhraseForce \o <<"\n">> /\ EntersPhrase(in, PhraseForce)

\* The Socket scanner is enabled and has no token: the acknowledgment is due.
AckDue == ~HasSocketToken(cfg) /\ cfg.socketEnabled

\* C12 (as stated): while the acknowledgment is due no scanner is invoked, and
\* it stops being due only by an entry of "unsecure"; after any other answer
\* no scanner is ever invoked and the command ends with the user-abort error.
C12_NoScanBeforeAck ==
    [][/\ AckDue =>
            /\ \A s \in ScannerNames : scanArgs'[s] = <<>>
            /\ ~AckDue' => \E in \in Answers("unsecure")' :
                              EntersPhrase(in, PhraseUnsecure)
       /\ \A in \in Answers("unsecure")' :
            ~EntersPhrase(in, PhraseUnsecure) =>
                /\ \A s \in ScannerNames : scanArgs'[s] = <<>>
                /\ ipc' = "done" => cliErr' = UserAbortError]_vars

\* A human override was given: the force flag, or "force" entered at the prompt.
Overridden ==
    flags.force \/ \E in \in Answers("force") : EntersPhrase(in, PhraseForce)

\* C13 (as stated): in the install command with scanning enabled and not
\* skipped, when a package to install is blocklisted and the malware action is
\* block, the installer is not executed unless an override was given.
C13_BlocklistBlocksInstall ==
    (/\ cfg.scanningEnabled /\ ~flags.skipScan
     /\ policy.malware = "block"
     /\ \E i \in 1..Len(args) : IsPackageBlocklisted(cfg, args[i])
     /\ ~Overridden)
        => ~installerRan

\* The segments of a path: what lies between its separators.
RECURSIVE Segments(_)
Segments(path) ==
    IF \A k \in 1..Len(path) : path[k] # "/" THEN <<path>>
    ELSE LET k == CHOOSE k \in 1..Len(path) :
                    path[k] = "/" /\ \A j \in 1..(k - 1) : path[j] # "/"
         IN <<SubSeq(path, 1, k - 1)>> \o Segments(SubSeq(path, k + 1, Len(path)))

\* The name the rule gives: the last segment, preceded by the second-to-last
\* one and a "/" when that one starts with "@".
ExpectedName(path) ==
    LET segs == Segments(path)
        n == Len(segs)
    IN IF n >= 2 /\ segs[n - 1] # <<>> /\ Head(segs[n - 1]) = "@"
          THEN Join(segs[n - 1]) \o "/" \o Join(segs[n])
          ELSE Join(segs[n])

\* The path is made of node_modules/<name> groups.
GroupPath(path) ==
    \/ \E n \in LockNames : path = Group(n)
    \/ \E m, n \in LockNames : path = Group(m) \o <<"/">> \o Group(n)

\* GetDependencies returned the packages of a lockfile of version 2 or more.
LockfileRun ==
    /\ ipc = "done"
    /\ project # NoProject
    /\ project.manifest # BadManifest
    /\ project.lockfile.lockfileVersion >= 2

\* The entries that are to yield a package: not the root, with a version,
\* and not dev-only unless dev dependencies are requested.
Eligible ==
    {path \in DOMAIN project.lockfile.packages :
        /\ path # <<>>
        /\ project.lockfile.packages[path].version # ""
        /\ ~project.lockfile.packages[path].dev \/ flags.includeDev}

\* C14 (as stated): every entry of the lockfile whose path is made of
\* node_modules groups is returned under the name the rule gives, with the
\* entry's version, and every returned name is the rule's name of an entry.
C14_NamesFollowRule ==
    LockfileRun =>
        /\ \A path \in Eligible :
              GroupPath(path) =>
                  \E i \in 1..Len(packages) :
                      /\ packages[i].name = ExpectedName(path)
                      /\ packages[i].version = project.lockfile.packages[path].version
        /\ (\A path \in Eligible : GroupPath(path)) =>
              \A i \in 1..Len(packages) :
                  \E path \in Eligible : packages[i].name = ExpectedName(path)

\* C15: from a lockfile of version 2 or more GetDependencies returns no
\* error and exactly one package per eligible entry, with the entry's
\* version, ecosystem "npm" and a non-empty name; the root entry, entries
\* without version and unrequested dev entries yield nothing.
C15_OnePackagePerEntry ==
    LockfileRun =>
        /\ cliErr = NilError
        /\ Len(packages) = Cardinality(Eligible)
        /\ \E ord \in Orders(Eligible) :
              \A i \in 1..Len(packages) :
                  /\ packages[i].version = project.lockfile.packages[ord[i]].version
                  /\ packages[i].ecosystem = "npm"
                  /\ packages[i].name # ""

\* C15 witness: dev dependencies are requested and the lockfile holds a dev
\* entry and an entry without version: one package, the dev entry's.
C15_Witness ==
    /\ LockfileRun
    /\ flags.includeDev
    /\ \E p, q \in DOMAIN project.lockfile.packages :
          /\ project.lockfile.packages[p].dev
          /\ project.lockfile.packages[p].version = "2.0.0"
          /\ project.lockfile.packages[q].version = ""
          /\ Len(packages) = 1
          /\ packages[1].version = "2.0.0"

\* The findings handed to the aggregation, each by the index of its result
\* and its index in that result.
Collected ==
    UNION {{<<r, i>> : i \in 1..Len(results[r].findings)} : r \in 1..Len(results)}

\* The returned result is the aggregate alone: ScanWithProgress, or Scan
\* with no package blocklisted.
AggregateReturned ==
    /\ pc = "done" /\ retErr = NoErr
    /\ mode = "ScanWithProgress" \/ BlocklistedIdx = {}

\* C16: the aggregate counts every finding of every result, and its flags
\* are set exactly by a malware or typosquat finding, a critical finding
\* and a high finding.
C16_AggregateSummary ==
    AggregateReturned =>
        /\ ret.total_findings = Cardinality(Collected)
        /\ ret.has_malware <=>
              \E c \in Collected :
                  results[c[1]].findings[c[2]].type
                      \in {FindingTypeMalware, FindingTypeTyposquat}
        /\ ret.has_critical <=>
              \E c \in Collected :
                  results[c[1]].findings[c[2]].severity = SeverityCritical
        /\ ret.has_high <=>
              \E c \in Collected :
                  results[c[1]].findings[c[2]].severity = SeverityHigh

\* C16 witness: both scanners report the same finding and it is counted
\* twice.
C16_Witness ==
    /\ AggregateReturned
    /\ Len(results) = 2
    /\ Len(results[1].findings) = 1
    /\ results[1].findings = results[2].findings
    /\ ret.total_findings = 2
    /\ ret.has_high /\ ~ret.has_malware /\ ~ret.has_critical

\* Some successful scanner returned a finding that satisfies P.
SomeFinding(P(_)) ==
    \E s \in Succeeded :
        \E i \in 1..Len(taskOut[s].result.findings) : P(taskOut[s].result.findings[i])

\* C17: whatever the order in which the scanners complete and their results
\* are collected, the summary Scan and ScanWithProgress return is the one
\* determined by what the successful scanners returned (and, for Scan, by
\* the blocklisted packages).
C17_OrderIndependent ==
    (Returned /\ retErr = NoErr) =>
        LET injected == IF mode = "Scan" THEN Cardinality(BlocklistedIdx) ELSE 0
            isMalware(f) == f.type \in {FindingTypeMalware, FindingTypeTyposquat}
            isCritical(f) == f.severity = SeverityCritical
            isHigh(f) == f.severity = SeverityHigh
        IN /\ ret.total_findings = SumFindings(Succeeded) + injected
           /\ ret.has_malware <=> (SomeFinding(isMalware) \/ injected > 0)
           /\ ret.has_critical <=> SomeFinding(isCritical)
           /\ ret.has_high <=> SomeFinding(isHigh)

\* C17 witness: both scanners returned findings and the second scanner
\* launched completed first, so its result was folded first.
C17_Witness ==
    /\ Returned /\ retErr = NoErr
    /\ scanners = <<SocketName, OSVName>>
    /\ Len(results) = 2
    /\ results[1].scanner = OSVName /\ results[1].findings # <<>>
    /\ results[2].scanner = SocketName /\ results[2].findings # <<>>
    /\ ret.total_findings = Len(results[1].findings) + Len(results[2].findings)
    /\ ret.has_malware /\ ret.has_critical /\ ret.has_high

\* The exit codes of the errors package.
ExitCodes ==
    <<ExitSuccess, ExitGeneralError, ExitSecurityBlock, ExitConfigError,
      ExitContainerError, ExitNetworkError, ExitScannerError, ExitManifestError,
      ExitUserAbort>>

\* The security-block code differs from every other code.
BlockCodeDistinct ==
    \A k \in 1..Len(ExitCodes) :
        (ExitCodes[k] = ExitSecurityBlock) <=> (k = 3)

\* In the security scan of the install command every scanner failed.
AllScannersFailed ==
    ipc \in {"handle", "container", "done"} /\ scanErr = ScannerError

\* C18 (as stated): the security-block code differs from every other code; a
\* run in which all scanners failed never reports it, and a run whose scan
\* ended in a policy block never reports the scanner-failure or the general
\* code.
C18_BlockCodeSpecific ==
    /\ BlockCodeDistinct
    /\ AllScannersFailed => cliErr.code # ExitSecurityBlock
    /\ (PolicyBlocked /\ ipc = "done") =>
          cliErr.code \notin {ExitScannerError, ExitGeneralError}

\* C18 (amended): the same, for the runs that do not execute the installer;
\* without an override a run whose scan ended in a policy block reports the
\* block error and a run in which all scanners failed reports the scanner
\* error (the user-abort error when the override prompt was refused), and
\* without the installer the block code is reported only for a policy block.
C18_BlockCodeUnlessInstallerRan ==
    /\ BlockCodeDistinct
    /\ (AllScannersFailed /\ ~installerRan) => cliErr.code # ExitSecurityBlock
    /\ (PolicyBlocked /\ ipc = "done" /\ ~installerRan) =>
          cliErr.code \notin {ExitScannerError, ExitGeneralError}
    /\ (PolicyBlocked /\ ipc = "done" /\ ~Overridden) =>
          IF Answers("force") = {}
              THEN cliErr = scanErr /\ cliErr.code = ExitSecurityBlock
              ELSE cliErr = UserAbortError
    /\ (AllScannersFailed /\ ipc = "done" /\ ~Overridden) =>
          IF Answers("force") = {}
              THEN cliErr.code = ExitScannerError
              ELSE cliErr = UserAbortError
    /\ (ipc = "done" /\ ~installerRan /\ cliErr.code = ExitSecurityBlock) =>
          PolicyBlocked

\* C18 witness: the install command returned the policy block, with code 2.
C18_Witness ==
    /\ PolicyBlocked /\ ipc = "done"
    /\ ~installerRan
    /\ cliErr.code = ExitSecurityBlock
    /\ cliErr.message = "security threats detected"

\* The scan command wrote a JSON result.
JSONWritten == jsonOut # NoOutput

\* The number of listed findings that satisfy P.
Listed(P(_)) ==
    Cardinality({i \in 1..Len(jsonOut.findings) : P(jsonOut.findings[i])})

\* C19: in the JSON result of the scan command, summary.total is the length
\* of the findings list, summary.malware the number of listed malware and
\* typosquat findings, and summary.critical, high, medium and low the number
\* of listed findings of that severity.
C19_JSONSummary ==
    JSONWritten =>
        LET any(f) == TRUE
            isMalware(f) == f.type = FindingTypeMalware \/ f.type = FindingTypeTyposquat
            isCritical(f) == f.severity = SeverityCritical
            isHigh(f) == f.severity = SeverityHigh
            isMedium(f) == f.severity = SeverityMedium
            isLow(f) == f.severity = SeverityLow
        IN /\ jsonOut.summary.total = Listed(any)
           /\ jsonOut.summary.malware = Listed(isMalware)
           /\ jsonOut.summary.critical = Listed(isCritical)
           /\ jsonOut.summary.high = Listed(isHigh)
           /\ jsonOut.summary.medium = Listed(isMedium)
           /\ jsonOut.summary.low = Listed(isLow)

\* C19 witness: the JSON result of a scan of a blocklisted package for which
\* Google OSV returned findings: the blocklist finding is listed and counted.
C19_Witness ==
    /\ JSONWritten
    /\ Len(jsonOut.findings) = 3
    /\ jsonOut.summary.total = 3
    /\ jsonOut.summary.malware = 1
    /\ jsonOut.summary.critical = 1
    /\ jsonOut.summary.high = 2
    /\ \E i \in 1..3 : jsonOut.findings[i].type = FindingTypeMalware

\* The configured scanners that are available.
Available == {scanners[i] : i \in {j \in 1..Len(scanners) : IsAvailable(cfg, scanners[j])}}

\* C20: when Scan or ScanWithProgress returns for a non-empty package list,
\* every available scanner has been invoked once on the filtered packages and
\* has run to its end whatever the other scanner returned, the result of
\* every successful scanner has been collected once, and the failure (a
\* timeout included) of one scanner leaves the call without error when
\* another succeeded.
C20_Independent ==
    (Returned /\ Len(packages) # 0) =>
        /\ \A s \in Available :
              /\ scanArgs[s] = <<filtered>>
              /\ task[s] = "exited"
              /\ taskOut[s] # NoResult
        /\ \A s \in Succeeded :
              Cardinality({j \in 1..Len(results) : results[j] = taskOut[s].result}) = 1
        /\ \A s \in Failed :
              /\ \A j \in 1..Len(results) : results[j].scanner # s
              /\ Succeeded # {} => retErr = NoErr /\ ret # NoResult

\* C20 witness: the Socket scanner failed and its error was received; the
\* OSV scanner succeeded with findings, and its result was collected and
\* returned.
C20_Witness ==
    /\ Returned
    /\ Failed = {SocketName}
    /\ Succeeded = {OSVName}
    /\ errsSeen = <<ErrOf(SocketName)>>
    /\ Len(results) = 1
    /\ results[1] = taskOut[OSVName].result
    /\ Len(results[1].findings) = MaxFindings
    /\ retErr = NoErr
    /\ ret.total_findings >= MaxFindings

\* The calling goroutine has left the collector loop: it is about to
\* aggregate, or it has returned.
Joined == pc \in {"tail", "done"}

\* C21: from the moment the collector loop is left (before aggregation and at
\* the return, with a result or with an error) no scanner goroutine of the
\* call is running: the wait group is at zero, the goroutine of every
\* available scanner has exited after exactly one invocation of its scanner
\* (the package list being non-empty: an empty one returns before the
\* fan-out), and no goroutine exists and no invocation was made for any
\* other scanner.
C21_JoinedBeforeAggregation ==
    Joined =>
        /\ wg = 0
        /\ \A s \in ScannerNames :
              IF s \in Available /\ Len(packages) # 0
                  THEN task[s] = "exited" /\ Len(scanArgs[s]) = 1
                  ELSE task[s] = "none" /\ Len(scanArgs[s]) = 0

\* C21 witness: both scanners were launched and both failed; Scan is about
\* to return the error, and both goroutines have exited.
C21_Witness ==
    /\ pc = "tail"
    /\ Available = ScannerNames
    /\ Failed = ScannerNames
    /\ AllFailed(results, firstErr)
    /\ \A s \in ScannerNames : task[s] = "exited" /\ Len(scanArgs[s]) = 1

\* The scanners whose query is in flight: doBatchQuery has derived its
\* context and sent the request, and Scan has not returned.
InFlight == {s \in ScannerNames : task[s] = "querying" /\ queryCtx[s] # NoCtx}

\* C22: every query in flight runs under a context derived from the ctx the
\* caller gave to Scan or ScanWithProgress, so that once the caller has
\* cancelled, the context of every scanner still running is done; and a
\* scanner whose query is started after the cancellation returns an error.
C22_CancelPropagates ==
    /\ \A s \in InFlight : queryCtx[s].parent = "ctx"
    /\ ctxDone => \A s \in InFlight : Done(queryCtx[s])
    /\ \A s \in ScannerNames :
          (queryCtx[s] # NoCtx /\ queryCtx[s].doneAtStart /\ taskOut[s] # NoResult)
              => taskOut[s].err # NoErr

\* C22 witness: the caller cancelled while both queries were in flight, and
\* both contexts, derived before the cancellation, are done.
C22_Witness ==
    /\ ctxDone
    /\ InFlight = ScannerNames
    /\ \A s \in ScannerNames : ~queryCtx[s].doneAtStart /\ Done(queryCtx[s])

\* The positions of the progress log at which the callback was invoked with
\* scanner name s and done flag d.
Reports(s, d) == {i \in 1..Len(progressLog) : progressLog[i] = <<s, d>>}

\* C23: in ScanWithProgress with a callback, the callback is never invoked
\* more than once with (s, started) or with (s, finished); for an available
\* scanner (of a non-empty package list) 'started' is reported before its
\* Scan is entered and 'finished' only after its Scan has returned, with a
\* result or with an error, and after 'started'; nothing is reported for an
\* unavailable scanner; and when the collector loop is left and when the call
\* has returned, both reports of every available scanner have been made.
C23_ProgressTwice ==
    (mode = "ScanWithProgress" /\ onProgress) =>
        \A s \in ScannerNames :
            /\ Cardinality(Reports(s, FALSE)) <= 1
            /\ Cardinality(Reports(s, TRUE)) <= 1
            /\ scanArgs[s] # <<>> => Reports(s, FALSE) # {}
            /\ Reports(s, TRUE) # {} =>
                  /\ taskOut[s] # NoResult
                  /\ \E i \in Reports(s, FALSE) : \A j \in Reports(s, TRUE) : i < j
            /\ s \notin Available => Reports(s, FALSE) \cup Reports(s, TRUE) = {}
            /\ (Joined /\ s \in Available /\ Len(packages) # 0) =>
                  /\ Cardinality(Reports(s, FALSE)) = 1
                  /\ Cardinality(Reports(s, TRUE)) = 1

\* C23 witness: ScanWithProgress has returned after four reports: both
\* scanners started before either finished, the Socket scanner failed and the
\* OSV scanner succeeded.
C23_Witness ==
    /\ Returned
    /\ mode = "ScanWithProgress" /\ onProgress
    /\ progressLog = <<<<OSVName, FALSE>>, <<SocketName, FALSE>>,
                       <<SocketName, TRUE>>, <<OSVName, TRUE>>>>
    /\ Failed = {SocketName}
    /\ Succeeded = {OSVName}

\* The configured scanners whose IsAvailable() is false.
Unavailable == {scanners[i] : i \in 1..Len(scanners)} \ Available

\* C24: a configured scanner that is not available never gets a goroutine, its
\* Scan is never invoked and no error of it is ever received or returned; and
\* when Scan returns for a non-empty package list with no scanner available,
\* it returns no error and a result made of exactly one "policy" entry per
\* blocklisted package, with a finding count equal to their number (no entry
\* and no finding at all from ScanWithProgress).
C24_UnavailableSkipped ==
    /\ \A s \in Unavailable :
          /\ task[s] = "none"
          /\ scanArgs[s] = <<>>
          /\ taskOut[s] = NoResult
          /\ \A i \in 1..Len(errsSeen) : errsSeen[i] # ErrOf(s)
          /\ firstErr # ErrOf(s) /\ retErr # ErrOf(s)
    /\ (Returned /\ Len(packages) # 0 /\ Available = {}) =>
          /\ retErr = NoErr
          /\ ret # NoResult
          /\ \A j \in 1..Len(ret.results) : ret.results[j].scanner = "policy"
          /\ Len(AllFindings(ret)) =
                (IF mode = "Scan" THEN Cardinality(BlocklistedIdx) ELSE 0)
          /\ ret.total_findings = Len(AllFindings(ret))
          /\ mode = "Scan" =>
                \A i \in BlocklistedIdx : HasPolicyFinding(ret, packages[i])

\* C24 witness: Socket is the only configured scanner and has no token; Scan
\* of two packages, one of them blocklisted, asked it whether it is available,
\* did not invoke it, and returned the one blocklist finding without error.
C24_Witness ==
    /\ Returned
    /\ mode = "Scan"
    /\ scanners = <<SocketName>>
    /\ Unavailable = {SocketName}
    /\ availCalls = {SocketName}
    /\ Len(packages) = 2
    /\ Cardinality(BlocklistedIdx) = 1
    /\ retErr = NoErr
    /\ Len(ret.results) = 1
    /\ ret.results[1].scanner = "policy"

\* C25: in the install command, the acknowledgment prompt was accepted (the
\* Socket scanner was disabled and the scan went on) exactly when the line
\* read was "unsecure" in any case with only white space around it, and was
\* refused (user-abort error) for every other line and for a read error; the
\* override prompt was accepted (no user abort) exactly when the line read
\* was "force" in any case with only white space around it, and ended the
\* command with the user-abort error otherwise.
C25_PromptsAcceptExactly ==
    /\ \A in \in Answers("unsecure") :
          /\ EntersPhrase(in, PhraseUnsecure) <=> ~cfg.socketEnabled
          /\ ~EntersPhrase(in, PhraseUnsecure) <=> scanErr = UserAbortError
    /\ \A in \in Answers("force") :
          /\ EntersPhrase(in, PhraseForce) <=> cliErr # UserAbortError
          /\ ~EntersPhrase(in, PhraseForce) => (ipc = "done" /\ ~installerRan)
          /\ EntersPhrase(in, PhraseForce) => ipc \in {"container", "done"}

\* C25 witness: the acknowledgment was accepted for an upper-case "UNSECURE"
\* between a tab and a carriage return, and the override was then refused
\* for the line "unsecure".
C25_Witness ==
    /\ prompts = <<<<"unsecure", Line(<<"\t", "U", "N", "S", "E", "C", "U", "R", "E", "\r">>)>>,
                   <<"force", Line(PhraseUnsecure)>>>>
    /\ ~cfg.socketEnabled
    /\ cliErr = UserAbortError
    /\ ~installerRan

\* The goroutines of the call have all ended: the caller has returned, every
\* scanner goroutine that was started has exited, and so has the closing one.
AllEnded ==
    /\ Returned
    /\ \A s \in ScannerNames : task[s] \in {"none", "exited"}
    /\ closer \in {"none", "exited"}

\* The scanner goroutine of s is at its channel send.
AtSend(s) == task[s] = (IF onProgress THEN "finished" ELSE "scanned")

\* C26: under fair scheduling, with every invoked scanner returning, every
\* call of Scan and ScanWithProgress returns and all its goroutines end,
\* whatever the number of available scanners and the mix of results and
\* errors; and a scanner goroutine at its send always finds room in the
\* buffer of the channel it sends on, so the send does not block.
C26_Terminates ==
    /\ <>AllEnded
    /\ [](\A s \in ScannerNames :
             AtSend(s) =>
                 /\ Len(resultsChan) < Len(scanners)
                 /\ Len(errChan) < Len(scanners)
                 /\ ENABLED TaskSend(s))

\* C26 witness: both scanners were launched, one failed and one succeeded,
\* the collector received the error and the result and saw both channels
\* closed, and every goroutine of the call has ended.
C26_Witness ==
    /\ AllEnded
    /\ Failed = {SocketName}
    /\ Succeeded = {OSVName}
    /\ Len(errsSeen) = 1 /\ Len(results) = 1
    /\ chanNil = {"results", "err"}
    /\ closer = "exited"

\* C27 (as stated): in every result Scan or ScanWithProgress returns,
\* has_critical is true exactly when results holds a finding of severity
\* critical and has_high exactly when it holds one of severity high, the
\* findings of the blocklist loop included.
C27_FlagsAgree ==
    (Returned /\ retErr = NoErr) =>
        /\ ret.has_critical <=>
              \E i \in 1..Len(AllFindings(ret)) :
                  AllFindings(ret)[i].severity = SeverityCritical
        /\ ret.has_high <=>
              \E i \in 1..Len(AllFindings(ret)) :
                  AllFindings(ret)[i].severity = SeverityHigh

\* The scanners whose goroutine has sent a result on resultsChan.
SentResult == {s \in Succeeded : task[s] \in {"sent", "exited"}}

\* The results the collector has received followed by those still buffered.
InTransit == results \o resultsChan

\* C28: at every moment the results received and the results still buffered
\* hold exactly one entry for each scanner that has sent a result and nothing
\* else, also after the channels have been closed; and when the collector
\* loop is left both buffers are empty, so that the results list handed to
\* aggregation holds exactly one entry for each available scanner whose
\* invocation succeeded, and no other entry.
C28_FanInExact ==
    /\ Len(InTransit) = Cardinality(SentResult)
    /\ \A s \in SentResult :
          Cardinality({j \in 1..Len(InTransit) : InTransit[j] = taskOut[s].result}) = 1
    /\ Joined =>
          /\ resultsChan = <<>> /\ errChan = <<>>
          /\ SentResult = Succeeded
          /\ Succeeded \subseteq Available
          /\ Len(results) = Cardinality(Succeeded)
          /\ \A s \in Succeeded : \E j \in 1..Len(results) : results[j] = taskOut[s].result

\* C28 witness: both channels are closed, the collector has received the
\* result of one scanner, and the result of the other is still in the buffer.
C28_Witness ==
    /\ pc = "collect"
    /\ chanClosed = {"results", "err"}
    /\ Succeeded = ScannerNames
    /\ Len(results) = 1
    /\ Len(resultsChan) = 1
    /\ results[1] # resultsChan[1]

\* The user was asked for the acknowledgment and refused it.
AckRefused == \E in \in Answers("unsecure") : ~EntersPhrase(in, PhraseUnsecure)

\* C29 (as stated): once the user has refused the "unsecure" acknowledgment,
\* the installer command is not executed in that run of the install command,
\* whatever the force flag and allow_override are.
C29_RefusalNeverInstalls ==
    AckRefused => ~installerRan

\* C30 (as stated): for every result a scan returned and every policy, the
\* evaluation that ran (outputTextResult in the scan command,
\* evaluateScanResults in the install command) reports a security block
\* exactly when the other one reports a security block for the same result
\* and policy.
C30_EvaluationsAgree ==
    /\ command = "scan" =>
          (Blocked <=> evaluateScanResults(policy, ret).code = ExitSecurityBlock)
    /\ command = "install" =>
          (Blocked <=> outputTextResult(policy, ret).code = ExitSecurityBlock)

====
